---- MODULE Spec2Model ----
(***************************************************************************)
(* Connection/session manager of Stratosphere-Mobile: the ApiService       *)
(* class (src/src/services/ApiService.ts) and the ConnectionProvider that  *)
(* drives it.  src/unnamed/part_004 holds two versions of the provider:     *)
(* the first (lines 1-565) and the second (lines 566-1349), which adds the *)
(* project sync methods and opens the last used repository when its        *)
(* instance connects; prov.version tells which one is mounted.             *)
(*                                                                         *)
(* JavaScript is single threaded: every action below is one run-to-        *)
(* completion turn of the event loop, i.e. a public call made by a client  *)
(* or the resumption of an async function at an await (a network answer, a *)
(* storage answer, a timer).  An async call is a task with a program       *)
(* counter; the server, NetInfo and the timers are the environment.        *)
(***************************************************************************)
EXTENDS Integers, Sequences, FiniteSets, TLC

\* ------------------------------------------------------------------ bounds
RetryConnects == 1   \* SpecRetry: connect() calls in one behaviour
RetryOps == 1        \* SpecRetry: wrapper calls in one behaviour
Retry401 == 2        \* SpecRetry: 401 answers the server gives in one behaviour
QueueConnects == 2   \* SpecQueue: connect()/reconnect() calls in one behaviour
QueuePending == 1    \* SpecQueue: connect()/reconnect() calls pending at a time
QueueOps == 2        \* SpecQueue: wrapper calls in one behaviour
Queue401 == 0        \* SpecQueue: 401 answers the server gives in one behaviour
AttemptConnects == 1 \* SpecAttempts: connect() calls in one behaviour
AttemptOps == 3      \* SpecAttempts: sendMessage() calls in one behaviour
Attempt401 == 0      \* SpecAttempts: 401 answers the server gives in one behaviour
OfflineConnects == 2 \* SpecOffline: connect() calls in one behaviour
OfflinePending == 1  \* SpecOffline: connect() calls pending at a time
OfflineOps == 2      \* SpecOffline: wrapper calls in one behaviour
Offline401 == 0      \* SpecOffline: 401 answers the server gives in one behaviour
MaxAux == 5          \* calls of the listener, getSession() calls and poll ticks
TickPending == 1     \* provider: calls of the listener and ticks still fetching when a timer fires
MaxListeners == 2    \* observers a client registers on a service
RetryAttempts == 2   \* config.retryAttempts of the instances (0 means unset)
MaxAutoTimers == 1   \* timers of the network effect pending at once
AutoConnects == 2    \* SpecAuto: connect() calls of the provider
Auto401 == 0         \* SpecAuto: 401 answers the server gives in one behaviour
AutoFailures == 1    \* SpecAuto: failing answers the server gives in one behaviour
AutoTicks == 1       \* SpecAuto: poll ticks that find their instance connected
ConnConnects == 2    \* SpecConn: connect() calls that pass the provider's guard
Conn401 == 0         \* SpecConn: 401 answers the server gives in one behaviour
ConnFailures == 2    \* SpecConn: failing answers the server gives, all to requests of connect()
ConnTicks == 1       \* SpecConn: poll ticks that find their instance connected
ConfigConnects == 2  \* SpecConfig: connect() calls that pass the provider's guard
Config401 == 0       \* SpecConfig: 401 answers the server gives in one behaviour
ConfigFailures == 0  \* SpecConfig: failing answers the server gives in one behaviour
ConfigTicks == 1     \* SpecConfig: poll ticks that find their instance connected
ProvConnects == 1    \* SpecProv: connect() calls (of the provider: that pass its guard)
ProvOps == 1         \* SpecProv: calls of a wrapper
Prov401 == 0         \* SpecProv: 401 answers the server gives in one behaviour
ProvFailures == 0    \* SpecProv: failing answers the server gives in one behaviour
ProvTicks == 1       \* SpecProv: poll ticks that find their instance connected
SessionConnects == 1 \* SpecSession: connect() calls in one behaviour
SessionCalls == 1    \* SpecSession: getSession() calls in one behaviour
Session401 == 1      \* SpecSession: 401 answers the server gives in one behaviour
PollConnects == 1    \* SpecPoll: connect() calls in one behaviour
PollTicks == 2       \* SpecPoll: poll ticks that find the service connected
PollPending == 1     \* SpecPoll: poll ticks still fetching when the timer fires
Poll401 == 0         \* SpecPoll: 401 answers the server gives in one behaviour
StaleConnects == 2   \* SpecStale: connect() calls in one behaviour
Stale401 == 1        \* SpecStale: 401 answers the server gives in one behaviour
WrapConnects == 1    \* SpecWrap: connect() calls in one behaviour
WrapOps == 2         \* SpecWrap: wrapper calls in one behaviour
Wrap401 == 0         \* SpecWrap: 401 answers the server gives in one behaviour
PWrapConnects == 1   \* SpecProvWrap: connect() calls that pass the provider's guard
PWrapOps == 1        \* SpecProvWrap: wrapper calls of the provider
PWrap401 == 0        \* SpecProvWrap: 401 answers the server gives in one behaviour
PWrapFailures == 3   \* SpecProvWrap: failing answers the server gives, all to wrapper calls
PWrapTicks == 1      \* SpecProvWrap: poll ticks that find their instance connected
HealthConnects == 1  \* SpecHealth: connect() calls in one behaviour
HealthCalls == 2     \* SpecHealth: healthCheck() calls in one behaviour
Health401 == 1       \* SpecHealth: 401 answers the server gives in one behaviour
FreshConnects == 2   \* SpecFresh: connect() calls in one behaviour
Fresh401 == 0        \* SpecFresh: 401 answers the server gives in one behaviour
ReconnConnects == 2  \* SpecReconn: connect() and reconnect() calls in one behaviour
Reconn401 == 0       \* SpecReconn: 401 answers the server gives in one behaviour
ReconnFailures == 0  \* SpecReconn: failing answers the server gives in one behaviour
ReconnTicks == 1     \* SpecReconn: poll ticks that find their instance connected
LateConnects == 1    \* SpecLate: connect() calls in one behaviour
LateTicks == 3       \* SpecLate: requests of the listener (2) and ticks that send requests
Late401 == 0         \* SpecLate: 401 answers the server gives in one behaviour
CbConnects == 1      \* SpecCallbacks: connect() calls in one behaviour
CbTicks == 2         \* SpecCallbacks: poll ticks that find the service connected
CbPending == 1       \* SpecCallbacks: poll ticks still fetching when the timer fires
Cb401 == 0           \* SpecCallbacks: 401 answers the server gives in one behaviour
CbFailures == 1      \* SpecCallbacks: failing answers the server gives in one behaviour
BackoffAttempts == 3 \* SpecBackoff: config.retryAttempts of the instance
BackoffConnects == 1 \* SpecBackoff: connect() calls in one behaviour
BackoffOps == 1      \* SpecBackoff: sendMessage() calls in one behaviour
Backoff401 == 1      \* SpecBackoff: 401 answers the server gives in one behaviour
ListenConnects == 1  \* SpecListeners: connect() calls in one behaviour
Listen401 == 0       \* SpecListeners: 401 answers the server gives in one behaviour
RaceConnects == 2    \* SpecRace: connect() and reconnect() calls in one behaviour
RacePending == 1     \* SpecRace: connect() and reconnect() calls in flight at once
Race401 == 0         \* SpecRace: 401 answers the server gives in one behaviour

\* ------------------------------------------------------- program constants
DefaultRetryAttempts == 3
\* this.config.retryDelay || 1000 (milliseconds)
DefaultRetryDelay == 1000
\* retryDelay of the configuration of the tests, and of defaultConfig
TestRetryDelay == 500
ProvRetryDelay == 1000
\* retryAttempts of the provider's defaultConfig
ProvRetryAttempts == 3

MaxSvc == 2          \* ApiService instances the provider constructs
MaxTimers == 2       \* setInterval handles handed out

Larger(a, b) == IF a > b THEN a ELSE b
MaxConnects ==
    Larger(Larger(Larger(RetryConnects, QueueConnects),
                  Larger(Larger(ConnConnects, AutoConnects), ProvConnects)),
           Larger(Larger(StaleConnects, WrapConnects),
                  Larger(Larger(PWrapConnects, HealthConnects),
                         Larger(Larger(FreshConnects, ReconnConnects),
                                Larger(Larger(LateConnects,
                                              Larger(CbConnects, ConfigConnects)),
                                       Larger(Larger(BackoffConnects,
                                                     Larger(RaceConnects,
                                                            ListenConnects)),
                                              Larger(OfflineConnects,
                                                     AttemptConnects)))))))
MaxOps ==
    Larger(Larger(Larger(RetryOps, QueueOps), Larger(ProvOps, WrapOps)),
           Larger(Larger(PWrapOps, AttemptOps), Larger(BackoffOps, OfflineOps)))

\* Task ids.  Instance s runs its loadStoredSession() as task s; the calls a
\* behaviour makes take the next unused id of their range.
Svc == 1..MaxSvc
ConnSlots == (MaxSvc + 1)..(MaxSvc + MaxConnects)
OpSlots == (MaxSvc + MaxConnects + 1)
           ..(MaxSvc + MaxConnects + MaxOps)
AuxSlots == (MaxSvc + MaxConnects + MaxOps + 1)
            ..(MaxSvc + MaxConnects + MaxOps + MaxAux)
TaskIds == Svc \cup ConnSlots \cup OpSlots \cup AuxSlots
\* "malformed": success is set but the body has no session object;
\* "noproject": the answer to GET /mobile/projects/current when no project is
\* open, {success: true, project: null}
\* "ok": the success flag with the data of the request; the list of projects
\* the server answers with is not empty
Responses == {"ok", "fail", "neterr", "unauth", "malformed", "noproject"}
\* the answers with the success flag and without the data of the request:
\* { success: true } and { success: true, project: null }
NoData == {"malformed", "noproject"}
\* the domain operation wrappers of ApiService
Wrappers ==
    {"sendMessage", "sendVoiceMessage", "getChatHistory", "clearChatHistory",
     "getProjects", "openProject", "getCurrentProject", "readFile", "writeFile"}
CreatePcs == {"create", "rcreate", "lcreate"}
GenDev(s) == 10 + s  \* the uuid generateDeviceId() draws for instance s
StoredDev == GenDev(0)   \* the device id an earlier run left in storage
StaleSid == MaxSvc + 3   \* the session id an earlier run left in storage
\* 'http://localhost:3000': the base URL of the tests and of defaultConfig
LocalURL == 3000
\* the base URLs a client passes to updateBaseURL
ClientURLs == {LocalURL, LocalURL + 1}
\* 'http://10.194.219.53:47893': the base URL of the defaultConfig of the
\* second version of the provider
HardcodedURL == 47893
\* the base URL built from the cfg-th configuration of the provider: the
\* defaultConfig of its version first, then the ones set later (the second
\* version starts with localhost:3001 of the app settings as its
\* configuration 1)
ConfigURL(version, cfg) ==
    IF version = 2 /\ cfg = 0 THEN HardcodedURL ELSE LocalURL + cfg
ProvListener(s) == 100 + s \* the callback the provider subscribes on instance s
ClientListeners == {201, 202}
\* callbacks of a client that call the unsubscribe closure of their own
\* registration when they are called (listeners that want one notification)
OnceListeners == {203}
\* the callbacks a client passes to onPollingUpdate, and the event keys
PollCallbacks == {301, 302}
PollEvents == {"session_update", "project_update"} \* callbacks a client of ApiService subscribes

VARIABLES
    svc,        \* svc[s]: the fields of ApiService instance s
    tasks,      \* tasks[t]: the async call t (its position, its promise)
    prov,       \* the ConnectionProvider: React state, rendered closure, effect
    storage,    \* AsyncStorage: api_session_id and device_id
    timers,     \* armed setInterval handles, <<handle, service>>
    timerSeq,   \* next setInterval handle
    unauths,    \* 401 answers the server has given
    failures,   \* failing answers given, where a specification limits them
    queuedLog,  \* per service: the requests in the order they were queued
    invoked,    \* per service: the queued requests in the order they were invoked
    lastNotify, \* the calls made by the latest notifyConnectionListeners
    pollCalls   \* the polling callbacks called so far: <<event, callback>>

vars == <<svc, tasks, prov, storage, timers, timerSeq, unauths, failures,
          queuedLog, invoked, lastNotify, pollCalls>>

EmptyTask ==
    [kind |-> "none", s |-> 0, pc |-> "none", stack |-> <<>>, storing |-> FALSE,
     hdr |-> FALSE, dev |-> 0, left |-> 0, delays |-> <<>>, via |-> "none", op |-> "none", queued |-> FALSE,
     \* the request on top of the stack was handed to the client in this turn
     \* and has not passed the request interceptor yet
     fresh |-> FALSE,
     \* error.config of the requests below the top of the stack: <<hdr, dev>>
     saved |-> <<>>,
     \* loadStoredSession: what its getItem calls read (AsyncStorage serves
     \* its calls in the order they were made, so a read gives the value
     \* stored when it was called)
     storedSessionId |-> 0, storedDeviceId |-> 0,
     result |-> "none", data |-> 0, presult |-> "none", calls |-> 0,
     \* disconnect() was called while this connect() or reconnect() was
     \* awaiting, or while this request was in the offline queue
     cut |-> FALSE]

NoService ==
    [exists |-> FALSE, sessionId |-> 0, isConnected |-> FALSE,
     connectionListeners |-> <<>>, retryQueue |-> <<>>, polling |-> 0,
     pollingCallbacks |-> [k \in {"session_update", "project_update"} |-> 0],
     \* per key, the callback of the latest onPollingUpdate call (0: none, or
     \* an unsubscribe closure of the key was called since)
     registered |-> [k \in {"session_update", "project_update"} |-> 0],
     \* per key, the callbacks whose unsubscribe closure a client holds and
     \* has not called yet
     unsubs |-> [k \in {"session_update", "project_update"} |-> {}],
     deviceId |-> 0, retryAttempts |-> 0, retryDelay |-> 0, baseURL |-> 0]

\* The state as one value, so that a handler is a function from state to state
\* and a handler that calls another is a composition.
World ==
    [svc |-> svc, tasks |-> tasks, prov |-> prov, storage |-> storage,
     timers |-> timers, timerSeq |-> timerSeq,
     unauths |-> unauths, failures |-> failures, queuedLog |-> queuedLog,
     invoked |-> invoked, lastNotify |-> lastNotify, pollCalls |-> pollCalls]

\* a settled call keeps its result and nothing of its request; the calls the
\* provider's listener made hand their result to the provider and keep nothing
Settled(T) ==
    IF T.pc # "done" THEN T
    ELSE IF T.via \in {"listener", "initdata", "autoopen"}
    THEN [EmptyTask EXCEPT !.kind = "settled", !.pc = "done", !.via = T.via]
    ELSE IF T.kind \in {"connect", "reconnect", "load"}
    THEN [T EXCEPT !.stack = <<>>, !.storing = FALSE, !.hdr = FALSE, !.dev = 0, !.left = 0,
                   !.saved = <<>>, !.op = "none", !.cut = FALSE,
                   !.storedSessionId = 0, !.storedDeviceId = 0]
    ELSE [T EXCEPT !.stack = <<>>, !.storing = FALSE, !.hdr = FALSE, !.dev = 0, !.left = 0,
                   !.saved = <<>>]

\* the request interceptor, which axios runs one microtask after the call of
\* the client, when the turn that made the call has run to its end:
\* "if (this.sessionId) config.headers['x-session-id'] = this.sessionId"
RequestInterceptor(W, T) ==
    IF T.fresh
    THEN [T EXCEPT !.fresh = FALSE,
                   !.hdr = IF W.svc[T.s].sessionId # 0 THEN TRUE ELSE @]
    ELSE T

Commit(W) ==
    /\ svc' = W.svc
    /\ tasks' = [t \in DOMAIN W.tasks |-> Settled(RequestInterceptor(W, W.tasks[t]))]
    /\ prov' = W.prov
    /\ storage' = W.storage
    /\ timers' = W.timers
    /\ timerSeq' = W.timerSeq
    /\ unauths' = W.unauths
    /\ failures' = W.failures
    /\ queuedLog' = W.queuedLog
    /\ invoked' = W.invoked
    /\ lastNotify' = W.lastNotify
    /\ pollCalls' = W.pollCalls

SetTask(W, t, rec) == [W EXCEPT !.tasks[t] = rec]

\* this.config.retryAttempts || 3
\* this.config.retryDelay || 1000
EffectiveDelay(configured) ==
    IF configured = 0 THEN DefaultRetryDelay ELSE configured

EffectiveAttempts(configured) ==
    IF configured = 0 THEN DefaultRetryAttempts ELSE configured

\* ----------------------------------------------------------- task creation
Unused(W, range) == {t \in range : W.tasks[t].kind = "none"}

\* the next unused task id of a range
Alloc(W, range) ==
    CHOOSE t \in Unused(W, range) : \A u \in Unused(W, range) : t <= u

\* this.client.get/post of a new request: its config has no x-session-id
\* until the request interceptor runs
SendBase(W, t) ==
    [W EXCEPT !.tasks[t].stack = <<1>>,
              !.tasks[t].storing = FALSE,
              !.tasks[t].saved = <<>>,
              !.tasks[t].hdr = FALSE,
              !.tasks[t].fresh = TRUE]

\* createSession(): POST /mobile/session as the request of task t
CreateSession(W, t, pc) ==
    [SendBase(W, t) EXCEPT !.tasks[t].pc = pc,
                           \* the body: deviceId: this.deviceId
                           !.tasks[t].dev = W.svc[W.tasks[t].s].deviceId]

\* validateSession(): GET /mobile/session as the request of task t
ValidateSession(W, t, pc) ==
    [SendBase(W, t) EXCEPT !.tasks[t].pc = pc]

\* ------------------------------------------------- makeRequest/retryRequest
\* requestFn(): every wrapper starts with one call of this.client
RequestFn(W, t) ==
    [SendBase(W, t) EXCEPT !.tasks[t].pc = "http", !.tasks[t].calls = @ + 1]

\* a retryRequest that counts its first invocation twice
RetryRequestOneLess(W, t, attempts) ==
    RequestFn([W EXCEPT !.tasks[t].left = attempts - 1], t)

\* retryRequest(requestFn, attempts): its first "await requestFn()"
RetryRequest(W, t, attempts) ==
    RequestFn([W EXCEPT !.tasks[t].left = attempts], t)

\* retryRequest retrying once more than configured
RetryAgainOffByOne(attempts) == attempts > 0

\* retryRequest: "if (attempts > 1)"
RetryAgain(attempts) == attempts > 1

\* makeRequest: queue while not connected, else run with retries
MakeRequest(W, t, s, op, via) ==
    LET rec == [EmptyTask EXCEPT !.kind = "op", !.s = s, !.op = op, !.via = via,
                                 !.result = "pending",
                                 !.presult = IF via \in {"prov", "sync"} THEN "pending"
                                            ELSE "none"]
    IN  IF ~W.svc[s].isConnected
        THEN [W EXCEPT !.tasks[t] = [rec EXCEPT !.pc = "queued", !.queued = TRUE],
                       !.svc[s].retryQueue = Append(@, t),
                       !.queuedLog[s] = Append(@, t)]
        ELSE RetryRequest(SetTask(W, t, rec), t,
                          EffectiveAttempts(W.svc[s].retryAttempts))

\* getSession(): GET /mobile/session
GetSessionCall(W, t, s, via) ==
    LET rec == [EmptyTask EXCEPT !.kind = "getSession", !.s = s, !.via = via,
                                 !.result = "pending"]
    IN  [SendBase(SetTask(W, t, rec), t) EXCEPT !.tasks[t].pc = "gsession"]

\* healthCheck(): GET /mobile/health, sent in every connection state
HealthCheckCall(W, t, s) ==
    LET rec == [EmptyTask EXCEPT !.kind = "health", !.s = s, !.via = "svc",
                                 !.result = "pending"]
    IN  [SendBase(SetTask(W, t, rec), t) EXCEPT !.tasks[t].pc = "health"]

\* a healthCheck that lets the error of its request through
HealthResultThrows(outcome) ==
    CASE outcome = "ok" -> "true" [] outcome = "fail" -> "false" [] OTHER -> "rejected"

\* healthCheck: response.data.status === 'OK', catch -> false
HealthResult(outcome) == IF outcome = "ok" THEN "true" ELSE "false"

\* ------------------------------------------------------ provider callbacks
\* autoOpenLastRepository(service) of the second version, called by the
\* listener: the function of the render whose [config] effect subscribed the
\* listener, so "if (autoOpeningProject) return" reads the state of that
\* render; else setAutoOpeningProject(true) and service.getCurrentProject()
AutoOpenLastRepository(W, s) ==
    IF W.prov.effectAutoOpening THEN W
    ELSE MakeRequest([W EXCEPT !.prov.autoOpeningProject = TRUE],
                     Alloc(W, AuxSlots), s, "getCurrentProject", "autoopen")

\* the listener of the [config] effect, subscribed on instance s
ProvOnConnectionChange(W, s, connected) ==
    IF connected
    THEN LET W1 == [W EXCEPT !.prov.isConnected = TRUE,
                             !.prov.connectionAttempts = 0,
                             !.prov.lastError = "none"]
             \* service.getSession().then(...)
             W2 == GetSessionCall(W1, Alloc(W1, AuxSlots), s, "listener")
         IN  IF W.prov.version = 1
             \* loadInitialData(service): service.getProjects() first
             THEN MakeRequest(W2, Alloc(W2, AuxSlots), s, "getProjects", "initdata")
             \* startProjectSync(service) returns at once
             ELSE AutoOpenLastRepository(W2, s)
    \* stopProjectSync() of the second version finds no interval to clear:
    \* startProjectSync never sets one
    ELSE [W EXCEPT !.prov.isConnected = FALSE, !.prov.sessionInfo = 0]

\* indexOf + splice of the unsubscribe closure
RECURSIVE RemoveFirst(_, _)
RemoveFirst(seq, x) ==
    IF seq = <<>> THEN <<>>
    ELSE IF Head(seq) = x THEN Tail(seq)
    ELSE <<Head(seq)>> \o RemoveFirst(Tail(seq), x)

\* callback(connected) of the listener l of instance s
CallListener(W, s, l, connected) ==
    IF l = ProvListener(s) THEN ProvOnConnectionChange(W, s, connected)
    ELSE IF l \in OnceListeners
    THEN [W EXCEPT !.svc[s].connectionListeners = RemoveFirst(@, l)]
    ELSE W

\* Array.prototype.forEach from index i (counted from 1): it visits the
\* indices up to the length n the array had when it started and reads, at
\* each index, the array as it is then; an index the array no longer has is
\* passed over
RECURSIVE NotifyEach(_, _, _, _, _)
NotifyEach(W, s, i, n, connected) ==
    IF i > n THEN W
    ELSE IF i > Len(W.svc[s].connectionListeners)
    THEN NotifyEach(W, s, i + 1, n, connected)
    ELSE LET l == W.svc[s].connectionListeners[i] IN
         NotifyEach(
            CallListener([W EXCEPT !.lastNotify = Append(@, <<l, connected>>)],
                         s, l, connected),
            s, i + 1, n, connected)

\* a notification that stops after the first listener
NotifyFirstListener(W, s, connected) ==
    NotifyEach([W EXCEPT !.lastNotify = <<>>], s, 1,
               IF W.svc[s].connectionListeners = <<>> THEN 0 ELSE 1, connected)

\* this.connectionListeners.forEach(callback => callback(connected))
NotifyConnectionListeners(W, s, connected) ==
    NotifyEach([W EXCEPT !.lastNotify = <<>>], s, 1,
               Len(W.svc[s].connectionListeners), connected)

\* the callbacks connect() registers with onPollingUpdate
CallPollingCallback(W, callback, event, data) ==
    IF callback \in ConnSlots
    THEN IF event = "session_update"
         THEN [W EXCEPT !.prov.sessionInfo = data]
         ELSE [W EXCEPT !.prov.currentProject = data]
    ELSE W

NotifyPollingCallbacks(W, s, event, data) ==
    LET callback == W.svc[s].pollingCallbacks[event] IN
    IF callback # 0
    THEN CallPollingCallback([W EXCEPT !.pollCalls = Append(@, <<event, callback>>)],
                             callback, event, data)
    ELSE W

\* a registration that keeps the callback the key already has
OnPollingUpdateKeepsFirst(W, s, event, callback) ==
    [W EXCEPT !.svc[s].pollingCallbacks[event] = IF @ # 0 THEN @ ELSE callback,
              !.svc[s].registered[event] = callback]

\* onPollingUpdate: this.pollingCallbacks.set(event, callback)
OnPollingUpdateCall(W, s, event, callback) ==
    [W EXCEPT !.svc[s].pollingCallbacks[event] = callback,
              !.svc[s].registered[event] = callback]

\* the closure onPollingUpdate returns: this.pollingCallbacks.delete(event)
PollingUnsubscribeCall(W, s, event) ==
    [W EXCEPT !.svc[s].pollingCallbacks[event] = 0,
              !.svc[s].registered[event] = 0]

\* --------------------------------------------------------------- polling
StopPolling(W, s) ==
    IF W.svc[s].polling # 0
    THEN [W EXCEPT !.timers = @ \ {<<W.svc[s].polling, s>>},
                   !.svc[s].polling = 0]
    ELSE W

StartPolling(W, s) ==
    LET W1 == StopPolling(W, s) IN
    [W1 EXCEPT !.svc[s].polling = W1.timerSeq,
               !.timers = @ \cup {<<W1.timerSeq, s>>},
               !.timerSeq = @ + 1]

\* a tick whose failure cancels the timer
PollingErrorStops(W, s) == StopPolling(W, s)

\* the catch of the tick: console.error('Polling error:', error)
PollingError(W, s) == W

\* ------------------------------------------------- settling a wrapper call
\* what the server echoes for the request of task t (the message it carried)
Echo(t) == t
NoSuccess == 0
\* the envelope of getCurrentProject whose data.project is null
NoProject == 2

\* the provider's wrappers that report a failure in lastError
Reporting == {"sendMessage", "sendVoiceMessage"}

\* what a provider wrapper returns when it does not call the service or when
\* the call fails
ProvNothing(op) == IF op = "clearChatHistory" THEN "false" ELSE "null"

\* a provider wrapper after "await apiService.<wrapper>(...)" returned
ProvResolved(W, t) ==
    LET T == W.tasks[t] IN
    CASE T.op = "clearChatHistory" ->
            \* return result.success
            [W EXCEPT !.tasks[t].presult =
                         IF T.data = NoSuccess THEN "false" ELSE "true"]
      [] T.op = "getProjects" ->
            [W EXCEPT !.tasks[t].presult = "data", !.prov.repositories = TRUE]
      [] T.op \in {"openProject", "getCurrentProject"} ->
            \* const project = result.data?.project || null;
            \* if (project) setCurrentProject(project.path); return project
            IF T.data = NoProject
            THEN [W EXCEPT !.tasks[t].presult = "null"]
            ELSE [W EXCEPT !.tasks[t].presult = "data", !.prov.currentProject = T.data]
      [] OTHER ->
            \* return result.data || null
            [W EXCEPT !.tasks[t].presult = "data"]

\* a provider wrapper that lets the error of the service through
ProvCaughtNot(W, t) ==
    [W EXCEPT !.tasks[t].presult = "rejected"]

\* the catch of a provider wrapper
ProvCaught(W, t) ==
    LET T == W.tasks[t] IN
    IF T.op \in Reporting
    THEN [W EXCEPT !.tasks[t].presult = ProvNothing(T.op),
                   !.prov.lastError = "error"]
    ELSE [W EXCEPT !.tasks[t].presult = ProvNothing(T.op)]

\* forceProjectSync after an await of it returned or threw: getProjects,
\* setRepositories, then getCurrentProject and setCurrentProject(path or
\* null); the catch keeps the error.  The function has no return statement:
\* on every path its promise resolves with no value (presult "null")
ForceProjectSyncSettled(W, t) ==
    LET T == W.tasks[t] IN
    IF T.result # "resolved" THEN [W EXCEPT !.tasks[t].presult = "null"]
    ELSE IF T.op = "getProjects"
    THEN MakeRequest([W EXCEPT !.prov.repositories = TRUE], t, T.s,
                     "getCurrentProject", "sync")
    ELSE IF T.data = NoProject
    THEN [W EXCEPT !.tasks[t].presult = "null", !.prov.currentProject = 0]
    ELSE [W EXCEPT !.tasks[t].presult = "null", !.prov.currentProject = T.data]

\* autoOpenLastRepository after an await of it returned or threw: a project
\* that is open is taken; else getProjects and openProject of the project
\* modified last; the catch logs, and the finally block runs on every path
\* that ends the function
AutoOpenSettled(W, t) ==
    LET T == W.tasks[t]
        finally(W1) == [W1 EXCEPT !.prov.autoOpeningProject = FALSE]
    IN  IF T.result # "resolved" THEN finally(W)
        ELSE IF T.op = "getCurrentProject"
        THEN IF T.data # NoProject
             THEN finally([W EXCEPT !.prov.currentProject = T.data])
             ELSE MakeRequest(W, t, T.s, "getProjects", "autoopen")
        ELSE IF T.op = "getProjects"
        THEN MakeRequest(W, t, T.s, "openProject", "autoopen")
        \* if (result.data?.project) setCurrentProject(result.data.project.path)
        ELSE IF T.data = NoProject THEN finally(W)
        ELSE finally([W EXCEPT !.prov.currentProject = T.data])

\* the code that awaits the wrapper's promise of task t
OpSettled(W, t) ==
    LET T == W.tasks[t]
        ok == T.result = "resolved"
    IN  CASE T.via = "prov" ->
                IF ok THEN ProvResolved(W, t) ELSE ProvCaught(W, t)
          [] T.via = "tick" ->
                \* startPolling: "if (currentProject.data?.project)" notify
                \* project_update; errors are swallowed
                IF ~ok THEN PollingError(W, T.s)
                ELSE IF T.data = NoProject THEN W
                ELSE NotifyPollingCallbacks(W, T.s, "project_update", T.data)
          [] T.via = "sync" -> ForceProjectSyncSettled(W, t)
          [] T.via = "autoopen" -> AutoOpenSettled(W, t)
          [] T.via = "initdata" ->
                \* loadInitialData: getProjects, then getCurrentProject
                IF ~ok THEN W
                ELSE IF T.op = "getProjects"
                THEN MakeRequest([W EXCEPT !.prov.repositories = TRUE], t, T.s,
                                 "getCurrentProject", "initdata")
                \* if (currentProj.data?.project) setCurrentProject(...)
                ELSE IF T.data = NoProject THEN W
                ELSE [W EXCEPT !.prov.currentProject = T.data]
          [] OTHER -> W

\* resolve(result) of the promise the caller of task p holds
Resolve(W, p, data) ==
    OpSettled([W EXCEPT !.tasks[p].pc = "done", !.tasks[p].result = "resolved",
                        !.tasks[p].data = data], p)

\* reject(error) of the promise the caller of task p holds
Reject(W, p) ==
    OpSettled([W EXCEPT !.tasks[p].pc = "done", !.tasks[p].result = "rejected"], p)

\* a failed request taken for a lost connection
RequestFailedDisconnects(W, t) ==
    Reject([W EXCEPT !.svc[W.tasks[t].s].isConnected = FALSE], t)

\* a throw of requestFn: the queued closure rejects, retryRequest retries
RequestFailed(W, t) ==
    LET T == W.tasks[t] IN
    IF T.queued THEN Reject(W, t)
    ELSE IF RetryAgain(T.left)
    THEN \* await this.delay(this.config.retryDelay || 1000)
         [W EXCEPT !.tasks[t].pc = "delay", !.tasks[t].left = @ - 1,
                   !.tasks[t].delays =
                       Append(@, EffectiveDelay(W.svc[T.s].retryDelay))]
    ELSE Reject(W, t)

\* wrappers that return whatever the server answered
WrapperThrowsOnError(op, outcome) == outcome = "error"

\* the wrapper body throws: its client call rejected, or the answer has no
\* success flag ("throw new Error(response.data.error || ...)"), or it has
\* the flag and not the data the body reads (a TypeError); the body of
\* clearChatHistory has no such branch and reads nothing, the body of
\* getCurrentProject takes a missing project for null
WrapperThrows(op, outcome) ==
    \/ outcome = "error"
    \/ outcome = "fail" /\ op # "clearChatHistory"
    \/ outcome \in NoData /\ op \notin {"clearChatHistory", "getCurrentProject"}

\* the data of the envelope the wrapper body returns; NoSuccess stands for the
\* envelope of clearChatHistory with success: false
WrapperData(op, outcome, t) ==
    IF outcome = "fail" THEN NoSuccess
    ELSE IF outcome \in NoData /\ op = "getCurrentProject" THEN NoProject
    ELSE IF op = "sendMessage" THEN Echo(t) ELSE 1

\* the wrapper body after its client call: success flag -> envelope or throw
RequestDone(W, t, outcome) ==
    IF WrapperThrows(W.tasks[t].op, outcome)
    THEN RequestFailed(W, t)
    ELSE Resolve(W, t, WrapperData(W.tasks[t].op, outcome, t))

\* ---------------------------------------------------------- the retry queue
\* a drain that takes a request off the queue and never runs it
InvokeQueuedDropped(W, s, t) ==
    [W EXCEPT !.invoked[s] = Append(@, t)]

\* processRetryQueue: "await requestFn()" of one queued closure
InvokeQueued(W, s, t) ==
    [RequestFn(W, t) EXCEPT !.invoked[s] = Append(@, t)]

RECURSIVE InvokeAll(_, _, _)
InvokeAll(W, s, q) ==
    IF q = <<>> THEN W ELSE InvokeAll(InvokeQueued(W, s, Head(q)), s, Tail(q))

\* a drain that walks the queue from its end
DrainSnapshotReversed(q) == [i \in 1..Len(q) |-> q[Len(q) + 1 - i]]

\* a drain that forgets to empty the queue
DrainRestKept(q) == q

\* the snapshot processRetryQueue takes ("[...this.retryQueue]") and the
\* queue it leaves ("this.retryQueue = []")
DrainSnapshot(q) == q
DrainRest(q) == <<>>

\* a drain that empties the queue and runs its first request only
ProcessRetryQueueFirstOnly(W, s) ==
    InvokeAll([W EXCEPT !.svc[s].retryQueue = DrainRest(@)], s,
              IF W.svc[s].retryQueue = <<>> THEN <<>>
              ELSE <<Head(DrainSnapshot(W.svc[s].retryQueue))>>)

ProcessRetryQueue(W, s) ==
    InvokeAll([W EXCEPT !.svc[s].retryQueue = DrainRest(@)], s,
              DrainSnapshot(W.svc[s].retryQueue))

\* ---------------------------------------------------- connect / reconnect
\* the provider's code after "await apiService.connect()" / ".reconnect()"
ConnectReturned(W, t) ==
    LET T == W.tasks[t]
        s == T.s
    IN  IF T.via # "prov" THEN W
        ELSE IF T.kind = "reconnect"
        THEN \* "return await apiService.reconnect()" and its catch
             [W EXCEPT !.tasks[t].presult =
                            IF T.result = "true" THEN "true" ELSE "false",
                       \* setLastError(error.message || 'Reconnection failed'):
                       \* the errors of createSession have a message
                       !.prov.lastError =
                            IF T.result = "rejected" THEN "error" ELSE @,
                       !.prov.reserved = @ - 2]
        ELSE LET W0 == [W EXCEPT !.tasks[t].presult =
                                    IF T.result = "true" THEN "true" ELSE "false",
                                 !.prov.reserved = @ - 2]
             IN  IF T.result = "true"
                 THEN LET W1 == StartPolling(W0, s) IN
                      [W1 EXCEPT !.svc[s].pollingCallbacks =
                                     [k \in DOMAIN @ |-> t],
                                 !.svc[s].registered =
                                     [k \in DOMAIN @ |-> t],
                                 !.prov.isConnecting = FALSE]
                 ELSE [W0 EXCEPT !.prov.lastError = "Connection failed",
                                 !.prov.isConnecting = FALSE]

ConnectSucceeded(W, t) ==
    LET s == W.tasks[t].s
        W1 == [W EXCEPT !.svc[s].isConnected = TRUE]
        W2 == NotifyConnectionListeners(W1, s, TRUE)
        W3 == ProcessRetryQueue(W2, s)
    IN  ConnectReturned([W3 EXCEPT !.tasks[t].pc = "done",
                                   !.tasks[t].result = "true"], t)

\* a connect() whose catch block throws the error again
ConnectFailedThrows(W, t) ==
    ConnectReturned([W EXCEPT !.tasks[t].pc = "done",
                              !.tasks[t].result = "rejected"], t)

\* the catch block of connect()
ConnectFailed(W, t) ==
    LET s == W.tasks[t].s
        W1 == [W EXCEPT !.svc[s].isConnected = FALSE]
        W2 == NotifyConnectionListeners(W1, s, FALSE)
    IN  ConnectReturned([W2 EXCEPT !.tasks[t].pc = "done",
                                   !.tasks[t].result = "false"], t)

\* ----------------------------------------------- results of client calls
\* createSession() returned to the code that awaited it
PostDone(W, t) ==
    LET T == W.tasks[t] IN
    CASE T.pc = "create" -> ConnectSucceeded(W, t)
      [] T.pc = "rcreate" -> [W EXCEPT !.tasks[t].pc = "netinfo"]
      [] OTHER -> [W EXCEPT !.tasks[t].pc = "done"]

\* createSession() threw to the code that awaited it
PostFailed(W, t) ==
    LET T == W.tasks[t] IN
    CASE T.pc = "create" -> ConnectFailed(W, t)
      [] T.pc = "rcreate" ->
            ConnectReturned([W EXCEPT !.tasks[t].pc = "done",
                                      !.tasks[t].result = "rejected"], t)
      [] OTHER -> [W EXCEPT !.tasks[t].pc = "done"]

\* a validation that surfaces its failure instead of creating a session
ValidateFailedThrows(W, t, pc) ==
    PostFailed([W EXCEPT !.tasks[t].pc = pc], t)

\* the catch of validateSession: "await this.createSession()"
ValidateFailed(W, t, pc) ==
    [CreateSession(W, t, pc) EXCEPT !.tasks[t].op = "revalidated"]

\* response.data.session of GET /mobile/session: the session the server
\* answers with, which getSession hands on whatever the request carried
ServerSession(T) == T.s

\* a getSession that lets the TypeError of a body without session through
GetSessionResultThrows(outcome) ==
    CASE outcome = "ok" -> "session"
      [] outcome = "malformed" -> "rejected"
      [] OTHER -> "null"

\* getSession: the session when response.data.success, null otherwise and
\* in the catch block
GetSessionResult(outcome) == IF outcome = "ok" THEN "session" ELSE "null"

\* a request other than createSession's came back: outcome is "ok" (success
\* flag set), "fail" (success flag not set), "malformed" or "noproject" (the
\* flag without the data) or "error" (the promise rejected)
BaseDone(W, t, outcome) ==
    LET T == W.tasks[t]
        s == T.s
    IN  CASE T.pc = "validate" ->
                \* validateSession: "if (!response.data.success) throw"
                IF outcome \in {"ok"} \cup NoData THEN ConnectSucceeded(W, t)
                ELSE ValidateFailed(W, t, "create")
          [] T.pc = "lvalidate" ->
                IF outcome \in {"ok"} \cup NoData
                THEN [W EXCEPT !.tasks[t].pc = "done"]
                ELSE ValidateFailed(W, t, "lcreate")
          [] T.pc = "http" -> RequestDone(W, t, outcome)
          [] T.pc = "gsession" ->
                IF outcome = "ok"
                THEN LET W1 == [W EXCEPT !.tasks[t].pc = "done",
                                         !.tasks[t].result = "session",
                                         !.tasks[t].data = ServerSession(T)]
                     IN  IF T.via = "listener"
                         THEN [W1 EXCEPT !.prov.sessionInfo = ServerSession(T)]
                         ELSE W1
                ELSE [W EXCEPT !.tasks[t].pc = "done",
                               !.tasks[t].result = GetSessionResult(outcome)]
          [] T.pc = "health" ->
                [W EXCEPT !.tasks[t].pc = "done",
                          !.tasks[t].result = HealthResult(outcome)]
          [] T.pc = "tsession" ->
                MakeRequest(IF outcome = "ok"
                            THEN NotifyPollingCallbacks(W, s, "session_update",
                                                        ServerSession(T))
                            ELSE W,
                            t, s, "getCurrentProject", "tick")
          [] OTHER -> W

\* ------------------------------------------------- the response interceptor
\* the request on top of the stack is createSession's POST
IsPost(T) == Len(T.stack) > 1 \/ T.pc \in CreatePcs

\* the client call of task t rejected
ChainFailed(W, t) ==
    LET W1 == [W EXCEPT !.tasks[t].stack = <<>>, !.tasks[t].dev = 0,
                        !.tasks[t].saved = <<>>] IN
    IF W.tasks[t].pc \in CreatePcs THEN PostFailed(W1, t)
    ELSE BaseDone(W1, t, "error")

\* the session id the server hands out: one no instance holds and storage
\* does not hold (the server never reuses a session id that is still around)
FreshSid(W) ==
    CHOOSE i \in 1..(MaxSvc + 2) :
        /\ i \notin {W.svc[s].sessionId : s \in Svc} \cup {W.storage.session}
        /\ \A j \in 1..(i - 1) :
              j \in {W.svc[s].sessionId : s \in Svc} \cup {W.storage.session}

\* the answer r to the request on top of the stack of task t
OnResponse(W, t, r) ==
    LET T == W.tasks[t]
        s == T.s
    IN  CASE r = "unauth" ->
                \* status 401: await this.createSession(); the interceptor
                \* keeps error.config of the request that was refused
                [W EXCEPT !.unauths = @ + 1,
                          !.tasks[t].stack = Append(@, 1),
                          !.tasks[t].saved = Append(@, <<T.hdr, T.dev>>),
                          !.tasks[t].hdr = FALSE,
                          !.tasks[t].fresh = TRUE,
                          !.tasks[t].dev = W.svc[s].deviceId]
          [] r = "neterr" -> ChainFailed(W, t)
          [] r \in {"fail"} \cup NoData ->
                \* createSession: "if (response.data.success &&
                \* response.data.sessionId)", else it throws
                IF IsPost(T) THEN ChainFailed(W, t)
                ELSE BaseDone([W EXCEPT !.tasks[t].stack = <<>>], t, r)
          [] OTHER ->
                IF IsPost(T)
                THEN \* this.sessionId = ...; await AsyncStorage.setItem(...)
                     [W EXCEPT !.svc[s].sessionId = FreshSid(W),
                               !.storage.session = FreshSid(W),
                               !.tasks[t].storing = TRUE,
                               !.tasks[t].dev = 0]
                ELSE BaseDone([W EXCEPT !.tasks[t].stack = <<>>], t, "ok")

\* createSession() returns: to its caller, or to the interceptor, which
\* retries the original request: return this.client.request(error.config)
SessionStored(W, t) ==
    LET T == W.tasks[t]
        s == T.s
        d == Len(T.stack) - 1
        rest == SubSeq(T.stack, 1, d)
    IN  IF d = 0
        THEN PostDone([W EXCEPT !.tasks[t].stack = <<>>,
                                !.tasks[t].storing = FALSE], t)
        ELSE \* the request goes out again with the headers and the body it
             \* had; the request interceptor sets the header anew only when
             \* the instance holds a session id
             [W EXCEPT !.tasks[t].stack = [rest EXCEPT ![d] = @ + 1],
                       !.tasks[t].storing = FALSE,
                       !.tasks[t].hdr = T.saved[d][1],
                       !.tasks[t].dev = T.saved[d][2],
                       !.tasks[t].saved = SubSeq(T.saved, 1, d - 1),
                       !.tasks[t].fresh = TRUE]

\* ------------------------------------------------------------ ApiService
\* a disconnect() that also empties the offline queue
DisconnectSvcClearsQueue(W, s) ==
    LET W1 == [W EXCEPT !.svc[s].isConnected = FALSE, !.svc[s].sessionId = 0,
                        !.svc[s].retryQueue = <<>>]
        W2 == StopPolling(W1, s)
        W3 == [W2 EXCEPT !.storage.session = 0]
    IN  NotifyConnectionListeners(W3, s, FALSE)

\* disconnect()
DisconnectSvc(W, s) ==
    LET W1 == [W EXCEPT !.svc[s].isConnected = FALSE, !.svc[s].sessionId = 0]
        W2 == StopPolling(W1, s)
        W3 == [W2 EXCEPT !.storage.session = 0]
    IN  NotifyConnectionListeners(W3, s, FALSE)

\* connect() after "await NetInfo.fetch()"
ConnectAfterNetInfo(W, t, online) ==
    LET s == W.tasks[t].s IN
    IF ~online THEN ConnectFailed(W, t)
    ELSE IF W.svc[s].sessionId = 0 THEN CreateSession(W, t, "create")
    ELSE ValidateSession(W, t, "validate")

\* loadStoredSession(): "await AsyncStorage.getItem('api_session_id')"
\* returned; the function calls getItem('device_id')
LoadStoredSession(W, t) ==
    [W EXCEPT !.tasks[t].pc = "readDevice",
              !.tasks[t].storedDeviceId = W.storage.device]

\* loadStoredSession(): "if (storedSessionId) { this.sessionId = ...;
\* await this.validateSession() }"
LoadSessionId(W, t) ==
    LET T == W.tasks[t] IN
    IF T.storedSessionId # 0
    THEN ValidateSession([W EXCEPT !.svc[T.s].sessionId = T.storedSessionId],
                         t, "lvalidate")
    ELSE [W EXCEPT !.tasks[t].pc = "done"]

\* loadStoredSession(): getItem('device_id') returned: the stored device id
\* is taken, or the generated one is stored
LoadDeviceId(W, t) ==
    LET T == W.tasks[t] IN
    IF T.storedDeviceId # 0
    THEN LoadSessionId([W EXCEPT !.svc[T.s].deviceId = T.storedDeviceId], t)
    ELSE [W EXCEPT !.storage.device = W.svc[T.s].deviceId,
                   !.tasks[t].pc = "saveDevice"]

\* a constructor that takes the stored session id at once
NewServiceWithSession(W, s, baseURL, retryAttempts, retryDelay) ==
    [W EXCEPT !.svc[s] = [NoService EXCEPT !.exists = TRUE,
                                           !.deviceId = GenDev(s),
                                           !.sessionId = W.storage.session,
                                           !.baseURL = baseURL,
                                           !.retryAttempts = retryAttempts,
                                           !.retryDelay = retryDelay],
              !.tasks[s] = [EmptyTask EXCEPT !.kind = "load", !.s = s,
                                             !.pc = "read", !.via = "svc",
                                             !.storedSessionId = W.storage.session]]

\* new ApiService(config): the constructor draws a device id and starts
\* loadStoredSession(), which calls getItem('api_session_id')
NewService(W, s, baseURL, retryAttempts, retryDelay) ==
    [W EXCEPT !.svc[s] = [NoService EXCEPT !.exists = TRUE,
                                           !.deviceId = GenDev(s),
                                           !.baseURL = baseURL,
                                           !.retryAttempts = retryAttempts,
                                           !.retryDelay = retryDelay],
              !.tasks[s] = [EmptyTask EXCEPT !.kind = "load", !.s = s,
                                             !.pc = "read", !.via = "svc",
                                             !.storedSessionId = W.storage.session]]

\* getConnectionStatus()
GetConnectionStatus(W, s) == W.svc[s].isConnected

\* updateBaseURL(baseURL)
UpdateBaseURL(W, s, baseURL) == [W EXCEPT !.svc[s].baseURL = baseURL]

\* getDebugInfo(), the fields the tests read
GetDebugInfo(W, s) ==
    [deviceId |-> W.svc[s].deviceId, sessionId |-> W.svc[s].sessionId,
     isConnected |-> W.svc[s].isConnected, baseURL |-> W.svc[s].baseURL]

\* ------------------------------------------------------------- the provider
NoProvider ==
    [mounted |-> FALSE, isConnected |-> FALSE, isConnecting |-> FALSE,
     connectionAttempts |-> 0, lastError |-> "none", sessionInfo |-> 0,
     apiService |-> 0, config |-> 0, repositories |-> FALSE, currentProject |-> 0,
     view |-> [isConnected |-> FALSE, isConnecting |-> FALSE, apiService |-> 0,
               config |-> 0],
     effectCfg |-> 0, effectSvc |-> 0, reserved |-> 0, autoTimers |-> <<>>,
     \* which version of the provider is mounted (0: none)
     version |-> 0,
     \* state of the second version; effectAutoOpening is autoOpeningProject
     \* as the render saw it whose [config] effect subscribed the listener
     projectSyncEnabled |-> TRUE, autoOpeningProject |-> FALSE,
     effectAutoOpening |-> FALSE]

\* the state the next render would capture
Snapshot(P) ==
    [isConnected |-> P.isConnected, isConnecting |-> P.isConnecting,
     apiService |-> P.apiService, config |-> P.config]

\* React has committed every pending state update and run its effects: the
\* rendered closures hold the committed state.  A render is a turn of its own;
\* the answers of the network, of storage and of the timers are delivered
\* whether or not it has run, and the calls of the client see the callbacks of
\* the last render.
Flushed == ~prov.mounted \/ (prov.view = Snapshot(prov) /\ prov.effectCfg = prov.config)

\* ---------------------------------------------------------------- actions
Used(range) == Cardinality(range \ Unused(World, range))
Pending(range) == Cardinality({t \in range : tasks[t].kind # "none" /\ tasks[t].pc # "done"})
FreeAux == Cardinality(Unused(World, AuxSlots)) - prov.reserved

\* the request task t has in flight can get the answer r
CanRespond(t, r, cap401) ==
    LET T == tasks[t] IN
    /\ T.stack # <<>>
    /\ ~T.storing
    /\ r = "unauth" => unauths < cap401

\* the environment: the server answers the request task t has in flight
Respond(t, r, cap401) ==
    /\ CanRespond(t, r, cap401)
    /\ Commit(OnResponse(World, t, r))

\* the answers that are no success
Failing == {"fail", "neterr", "malformed", "noproject"}

\* the server answers, and gives at most capFail failing answers
RespondLimited(t, r, cap401, capFail) ==
    /\ CanRespond(t, r, cap401)
    /\ r \in Failing => failures < capFail
    /\ Commit([OnResponse(World, t, r)
                 EXCEPT !.failures = IF r \in Failing THEN @ + 1 ELSE @])

\* whose request task T carries: connect() and reconnect(), loadStoredSession,
\* the provider's listener, a poll tick, or a call of a wrapper
RequestOf(T) ==
    CASE T.kind \in {"connect", "reconnect"} -> "connect"
      [] T.kind = "load" -> "load"
      [] T.via \in {"listener", "initdata", "autoopen"} -> "listener"
      [] T.via = "tick" -> "tick"
      [] OTHER -> "call"

\* the server answers, and gives at most capFail failing answers, all of them
\* to requests of the callers in who
RespondTo(t, r, cap401, capFail, who) ==
    /\ CanRespond(t, r, cap401)
    /\ r \in Failing => RequestOf(tasks[t]) \in who /\ failures < capFail
    /\ Commit([OnResponse(World, t, r)
                 EXCEPT !.failures = IF r \in Failing THEN @ + 1 ELSE @])

StoreDone(t) ==
    /\ tasks[t].storing
    /\ Commit(SessionStored(World, t))

NetInfoDone(t, online) ==
    /\ tasks[t].pc = "netinfo"
    /\ Commit(ConnectAfterNetInfo(World, t, online))

\* AsyncStorage answers the getItem('api_session_id') of loadStoredSession
LoadRead(t) ==
    /\ tasks[t].pc = "read"
    /\ Commit(LoadStoredSession(World, t))

\* AsyncStorage answers the getItem('device_id') of loadStoredSession
LoadReadDevice(t) ==
    /\ tasks[t].pc = "readDevice"
    /\ Commit(LoadDeviceId(World, t))

\* AsyncStorage answers the setItem('device_id', ...) of loadStoredSession
LoadSaved(t) ==
    /\ tasks[t].pc = "saveDevice"
    /\ Commit(LoadSessionId(World, t))

DelayDone(t) ==
    /\ tasks[t].pc = "delay"
    /\ Commit(RequestFn(World, t))

\* the setInterval callback of startPolling: nothing while not connected,
\* else "await this.getSession()" first
PollTick(h, s, cap, pending) ==
    /\ <<h, s>> \in timers
    /\ IF ~svc[s].isConnected THEN UNCHANGED vars
       ELSE /\ Used(AuxSlots) < cap /\ Pending(AuxSlots) < pending
            /\ FreeAux >= 1
            /\ LET t == Alloc(World, AuxSlots) IN
               Commit([SendBase(SetTask(World, t,
                                        [EmptyTask EXCEPT !.kind = "tick", !.s = s,
                                                          !.via = "tick"]), t)
                         EXCEPT !.tasks[t].pc = "tsession"])

\* a client of the ApiService instance s calls its public methods
Connect(s, cap, pending) ==
    /\ svc[s].exists /\ Used(ConnSlots) < cap /\ Pending(ConnSlots) < pending
    /\ Commit(SetTask(World, Alloc(World, ConnSlots),
                      [EmptyTask EXCEPT !.kind = "connect", !.s = s,
                                        !.pc = "netinfo", !.via = "svc",
                                        !.result = "pending"]))

Disconnect(s) ==
    /\ svc[s].exists
    /\ Commit(DisconnectSvc(World, s))

Reconnect(s, cap, pending) ==
    /\ svc[s].exists /\ Used(ConnSlots) < cap /\ Pending(ConnSlots) < pending
    /\ LET t == Alloc(World, ConnSlots) IN
       Commit(CreateSession(SetTask(World, t,
                                    [EmptyTask EXCEPT !.kind = "reconnect", !.s = s,
                                                      !.via = "svc",
                                                      !.result = "pending"]),
                            t, "rcreate"))

SendMessage(s, cap) ==
    /\ svc[s].exists /\ Used(OpSlots) < cap
    /\ Commit(MakeRequest(World, Alloc(World, OpSlots), s, "sendMessage", "svc"))

\* a client calls one of the domain operation wrappers
CallWrapper(s, op, cap) ==
    /\ svc[s].exists /\ Used(OpSlots) < cap
    /\ Commit(MakeRequest(World, Alloc(World, OpSlots), s, op, "svc"))

HealthCheck(s, cap) ==
    /\ svc[s].exists /\ Used(AuxSlots) < cap /\ FreeAux >= 1
    /\ Commit(HealthCheckCall(World, Alloc(World, AuxSlots), s))

\* new ApiService(config) called by the client
Construct(s) ==
    /\ ~svc[s].exists /\ \A u \in Svc : u < s => svc[u].exists
    /\ Commit(NewService(World, s, LocalURL, RetryAttempts, TestRetryDelay))

\* a client calls disconnect() while its connect() or reconnect() is awaiting
DisconnectInFlight(s) ==
    LET waiting == {t \in ConnSlots : tasks[t].s = s /\ tasks[t].result = "pending"}
        W1 == DisconnectSvc(World, s)
    IN  /\ svc[s].exists /\ waiting # {}
        /\ Commit([W1 EXCEPT !.tasks = [t \in TaskIds |->
                                          IF t \in waiting
                                          THEN [W1.tasks[t] EXCEPT !.cut = TRUE]
                                          ELSE W1.tasks[t]]])

GetSession(s, cap) ==
    /\ svc[s].exists /\ Used(AuxSlots) < cap /\ FreeAux >= 1
    /\ Commit(GetSessionCall(World, Alloc(World, AuxSlots), s, "svc"))

\* a client calls disconnect() while requests are in the offline queue
DisconnectQueued(s) ==
    LET W1 == DisconnectSvc(World, s)
    IN  /\ svc[s].exists /\ svc[s].retryQueue # <<>>
        /\ Commit([W1 EXCEPT !.tasks = [t \in TaskIds |->
                                          IF \E i \in DOMAIN svc[s].retryQueue :
                                                svc[s].retryQueue[i] = t
                                          THEN [W1.tasks[t] EXCEPT !.cut = TRUE]
                                          ELSE W1.tasks[t]]])

\* a client calls getSession() and then disconnect() in one turn: the request
\* interceptor runs after both
GetSessionDisconnect(s, cap) ==
    /\ svc[s].exists /\ Used(AuxSlots) < cap /\ FreeAux >= 1
    /\ svc[s].sessionId # 0
    /\ Commit(DisconnectSvc(GetSessionCall(World, Alloc(World, AuxSlots), s, "svc"), s))

\* a client calls updateBaseURL(baseURL)
UpdateBaseURLCall(s, baseURL) ==
    /\ svc[s].exists
    /\ Commit(UpdateBaseURL(World, s, baseURL))

\* a client calls disconnect() and then getSession()
DisconnectGetSession(s, cap) ==
    /\ svc[s].exists /\ Used(AuxSlots) < cap /\ FreeAux >= 1
    /\ LET W1 == DisconnectSvc(World, s)
           t == Alloc(W1, AuxSlots)
       IN  Commit([GetSessionCall(W1, t, s, "svc")
                     EXCEPT !.tasks[t].op = "afterDisconnect"])

OnConnectionChange(s, l) ==
    /\ svc[s].exists
    /\ Len(svc[s].connectionListeners) < MaxListeners
    /\ Commit([World EXCEPT !.svc[s].connectionListeners = Append(@, l)])

Unsubscribe(s, l) ==
    /\ svc[s].exists
    /\ Commit([World EXCEPT !.svc[s].connectionListeners = RemoveFirst(@, l)])

\* a client registers callback for event and keeps the closure it gets
OnPollingUpdate(s, event, callback) ==
    /\ svc[s].exists
    /\ Commit([OnPollingUpdateCall(World, s, event, callback)
                  EXCEPT !.svc[s].unsubs[event] = @ \cup {callback}])

\* a client calls, once, the closure it got when it registered callback
PollingUnsubscribe(s, event, callback) ==
    /\ svc[s].exists
    /\ callback \in svc[s].unsubs[event]
    /\ Commit([PollingUnsubscribeCall(World, s, event)
                  EXCEPT !.svc[s].unsubs[event] = @ \ {callback}])

StartPollingCall(s) ==
    /\ svc[s].exists
    /\ timerSeq <= MaxTimers
    /\ Commit(StartPolling(World, s))

StopPollingCall(s) ==
    /\ svc[s].exists
    /\ Commit(StopPolling(World, s))

\* ------------------------------------------------- the provider's methods
\* the [config] effect: cleanup of the previous run (unsubscribe, disconnect
\* the old instance), then a new ApiService with the provider's listener
ConfigEffect(W) ==
    LET old == W.prov.effectSvc
        new == CHOOSE s \in Svc : ~W.svc[s].exists /\ \A u \in Svc : ~W.svc[u].exists => s <= u
        W1 == [W EXCEPT !.svc[old].connectionListeners = RemoveFirst(@, ProvListener(old))]
        W2 == DisconnectSvc(W1, old)
        \* the new configuration keeps the retryAttempts of the old one
        W3 == NewService(W2, new, ConfigURL(W.prov.version, W.prov.config),
                         W.svc[old].retryAttempts, W.svc[old].retryDelay)
    IN  [W3 EXCEPT !.svc[new].connectionListeners = Append(@, ProvListener(new)),
                   !.prov.apiService = new,
                   !.prov.effectSvc = new,
                   !.prov.effectCfg = W.prov.config,
                   !.prov.effectAutoOpening = W.prov.autoOpeningProject]

\* React renders: the callbacks capture the committed state, then the effects
\* whose dependencies changed run
Render ==
    /\ prov.mounted
    /\ ~Flushed
    /\ LET W1 == [World EXCEPT !.prov.view = Snapshot(prov)] IN
       Commit(IF prov.config # prov.effectCfg THEN ConfigEffect(W1) ELSE W1)

\* the body of connect(host?, port?) past its guard, in the closure of the
\* render that captured v; withHostPort: host or port was given, then the
\* closure sets the new configuration and calls updateBaseURL on its instance
ProvConnect(W, v, t, withHostPort) ==
    LET W1 == [W EXCEPT !.prov.isConnecting = TRUE,
                        !.prov.connectionAttempts = @ + 1,
                        !.prov.lastError = "none",
                        !.prov.config = IF withHostPort THEN v.config + 1 ELSE @,
                        !.prov.reserved = @ + 2]
        W2 == IF withHostPort
              THEN UpdateBaseURL(W1, v.apiService,
                                 ConfigURL(W1.prov.version, W1.prov.config))
              ELSE W1
    IN  SetTask(W2, t,
                [EmptyTask EXCEPT !.kind = "connect",
                                  !.s = v.apiService,
                                  !.pc = "netinfo", !.via = "prov",
                                  !.op = IF withHostPort THEN "hostport"
                                         ELSE "none",
                                  !.result = "pending",
                                  !.presult = "pending"])

\* connect(host?, port?) of the provider, called by the client
PConnect(withHostPort, cap) ==
    /\ prov.mounted
    /\ IF prov.view.isConnecting \/ prov.view.isConnected \/ prov.view.apiService = 0
       THEN UNCHANGED vars
       ELSE /\ Used(ConnSlots) < cap
            /\ FreeAux >= 2
            /\ withHostPort => \E s \in Svc : ~svc[s].exists
            /\ Commit(ProvConnect(World, prov.view, Alloc(World, ConnSlots),
                                  withHostPort))

\* updateConfig(newConfig) of the provider: setConfig of the rendered
\* configuration with the new fields, and the [config] effect of the next
\* render replaces the instance
PUpdateConfig ==
    /\ prov.mounted
    /\ \E s \in Svc : ~svc[s].exists
    /\ Commit([World EXCEPT !.prov.config = prov.view.config + 1])

\* the NetInfo listener of the network effect: the listener of the last render
\* sets, under its guard, a timer of 1000 ms that keeps the closure of that
\* render (autoReconnect is on, as in the settings the repository ships)
NetInfoEvent(online) ==
    /\ prov.mounted
    /\ Len(prov.autoTimers) < MaxAutoTimers
    /\ IF online /\ ~prov.view.isConnected /\ ~prov.view.isConnecting
          /\ prov.view.apiService # 0
       THEN Commit([World EXCEPT !.prov.autoTimers = Append(@, prov.view)])
       ELSE UNCHANGED vars

\* the timer of the network effect: "if (!isConnected) connect()" with the
\* isConnected and the connect of the render that set the timer
AutoConnectTimer(cap) ==
    /\ prov.mounted
    /\ prov.autoTimers # <<>>
    /\ LET v == Head(prov.autoTimers)
           W1 == [World EXCEPT !.prov.autoTimers = Tail(@)]
       IN  IF v.isConnected \/ v.isConnecting \/ v.apiService = 0
           THEN Commit(W1)
           ELSE /\ Used(ConnSlots) < cap
                /\ FreeAux >= 2
                /\ Commit(ProvConnect(W1, v, Alloc(World, ConnSlots), FALSE))

\* disconnect() of the provider
PDisconnect ==
    /\ prov.mounted
    /\ LET W1 == IF prov.view.apiService # 0
                 THEN DisconnectSvc(World, prov.view.apiService)
                 ELSE World
       IN  Commit([W1 EXCEPT !.prov.isConnected = FALSE,
                             !.prov.isConnecting = FALSE,
                             !.prov.connectionAttempts = 0,
                             !.prov.sessionInfo = 0,
                             !.prov.currentProject = 0,
                             !.prov.repositories = FALSE,
                             !.prov.lastError = "none"])

\* reconnect() of the provider
PReconnect(cap) ==
    /\ prov.mounted
    /\ IF prov.view.apiService = 0
       THEN UNCHANGED vars
       ELSE /\ Used(ConnSlots) < cap
            /\ FreeAux >= 2
            /\ LET t == Alloc(World, ConnSlots)
                   W1 == [World EXCEPT !.prov.lastError = "none",
                                       !.prov.reserved = @ + 2]
               IN  Commit(CreateSession(
                          SetTask(W1, t,
                                  [EmptyTask EXCEPT !.kind = "reconnect",
                                                    !.s = prov.view.apiService,
                                                    !.via = "prov",
                                                    !.result = "pending",
                                                    !.presult = "pending"]),
                          t, "rcreate"))

\* a wrapper of the provider: sendMessage, ..., writeFile
PCallWrapper(op, cap) ==
    /\ prov.mounted
    /\ Used(OpSlots) < cap
    /\ LET t == Alloc(World, OpSlots) IN
       IF prov.view.apiService = 0 \/ ~prov.view.isConnected
       THEN Commit([World EXCEPT
                      !.prov.lastError = IF op \in Reporting
                                         THEN "Not connected to server" ELSE @,
                      !.tasks[t] = [EmptyTask EXCEPT !.kind = "op", !.via = "prov",
                                                     !.op = op,
                                                     !.pc = "done",
                                                     !.presult = ProvNothing(op)]])
       ELSE Commit(MakeRequest([World EXCEPT
                                  !.prov.lastError = IF op \in Reporting
                                                     THEN "none" ELSE @],
                               t, prov.view.apiService, op, "prov"))

\* the poll ticks that found their instance connected
TickTasks == {t \in AuxSlots : tasks[t].via = "tick"}

\* the timers the provider's connect() arms fire: a tick of any armed timer;
\* at most cap ticks of a behaviour find their instance connected, and they
\* find fewer than TickPending requests of the listener and of ticks pending
ProvPollTick(cap) ==
    \E h \in 1..MaxTimers, s \in Svc :
        /\ svc[s].isConnected => Cardinality(TickTasks) < cap
        /\ PollTick(h, s, MaxAux + 1, TickPending)

\* the AppState listener: the app comes to the foreground ('active'); the
\* listener of the last render calls reconnect() when that render was not
\* connected and held an instance (autoReconnect is on)
AppStateActive(cap) ==
    /\ prov.mounted
    /\ IF ~prov.view.isConnected /\ prov.view.apiService # 0
       THEN PReconnect(cap)
       ELSE UNCHANGED vars

\* rescanRepositories() of the provider (second version of the provider):
\* the ApiService of this repository has no
\* rescanRepositories, so the call throws inside the try and the catch falls
\* back to the provider's getProjects()
PRescanRepositories(cap) ==
    /\ prov.mounted /\ prov.version = 2
    /\ Used(OpSlots) < cap
    /\ IF prov.view.apiService = 0 \/ ~prov.view.isConnected
       THEN Commit([World EXCEPT
                      !.tasks[Alloc(World, OpSlots)] =
                          [EmptyTask EXCEPT !.kind = "op", !.via = "prov",
                                            !.op = "rescanRepositories",
                                            !.pc = "done", !.presult = "null"]])
       ELSE PCallWrapper("getProjects", cap)

\* forceProjectSync() of the provider (second version of the provider): a
\* plain function of the render, so its guard reads the rendered apiService
\* and isConnected; past the guard it awaits getProjects() of that instance
PForceProjectSync(cap) ==
    /\ prov.mounted /\ prov.version = 2
    /\ Used(OpSlots) < cap
    /\ LET t == Alloc(World, OpSlots) IN
       IF prov.view.apiService = 0 \/ ~prov.view.isConnected
       THEN Commit([World EXCEPT
                      !.tasks[t] = [EmptyTask EXCEPT !.kind = "op", !.via = "sync",
                                                     !.op = "forceProjectSync",
                                                     !.pc = "done",
                                                     !.presult = "null"]])
       ELSE Commit(MakeRequest(World, t, prov.view.apiService, "getProjects",
                               "sync"))

\* setProjectSyncEnabled(enabled) of the provider: the setter of a state that
\* no code of the provider reads (startProjectSync returns at once and sets no
\* timer)
PSetProjectSyncEnabled(enabled) ==
    /\ prov.mounted /\ prov.version = 2
    /\ prov.projectSyncEnabled # enabled
    /\ Commit([World EXCEPT !.prov.projectSyncEnabled = enabled])

\* ------------------------------------------- one ApiService and its client
\* a first launch: nothing in AsyncStorage, instance 1 just constructed
Init ==
    LET W0 == [svc |-> [s \in Svc |-> NoService],
               tasks |-> [t \in TaskIds |-> EmptyTask],
               prov |-> NoProvider,
               storage |-> [session |-> 0, device |-> 0],
               timers |-> {}, timerSeq |-> 1, unauths |-> 0, failures |-> 0,
               queuedLog |-> [s \in Svc |-> <<>>],
               invoked |-> [s \in Svc |-> <<>>],
               lastNotify |-> <<>>, pollCalls |-> <<>>]
        W == NewService(W0, 1, LocalURL, RetryAttempts, TestRetryDelay)
    IN  /\ svc = W.svc /\ tasks = W.tasks /\ prov = W.prov
        /\ storage = W.storage /\ timers = W.timers /\ timerSeq = W.timerSeq
        /\ unauths = W.unauths /\ failures = W.failures
        /\ queuedLog = W.queuedLog /\ invoked = W.invoked
        /\ lastNotify = W.lastNotify /\ pollCalls = W.pollCalls

\* the answers of the server, of AsyncStorage and of NetInfo
Answers(cap401) ==
    \/ \E t \in TaskIds, r \in Responses : Respond(t, r, cap401)
    \/ \E t \in TaskIds : StoreDone(t)
    \/ \E t \in TaskIds, online \in BOOLEAN : NetInfoDone(t, online)
    \/ \E t \in TaskIds : LoadRead(t)
    \/ \E t \in TaskIds : LoadReadDevice(t)
    \/ \E t \in TaskIds : LoadSaved(t)

\* the answers and the timer of retryRequest
Environment(cap401) ==
    \/ Answers(cap401)
    \/ \E t \in TaskIds : DelayDone(t)

\* the same with a server that gives at most capFail failing answers
AnswersLimited(cap401, capFail) ==
    \/ \E t \in TaskIds, r \in Responses : RespondLimited(t, r, cap401, capFail)
    \/ \E t \in TaskIds : StoreDone(t)
    \/ \E t \in TaskIds, online \in BOOLEAN : NetInfoDone(t, online)
    \/ \E t \in TaskIds : LoadRead(t)
    \/ \E t \in TaskIds : LoadReadDevice(t)
    \/ \E t \in TaskIds : LoadSaved(t)

EnvironmentLimited(cap401, capFail) ==
    \/ AnswersLimited(cap401, capFail)
    \/ \E t \in TaskIds : DelayDone(t)

\* the same with a server whose failing answers go to the callers in who
AnswersTo(cap401, capFail, who) ==
    \/ \E t \in TaskIds, r \in Responses : RespondTo(t, r, cap401, capFail, who)
    \/ \E t \in TaskIds : StoreDone(t)
    \/ \E t \in TaskIds, online \in BOOLEAN : NetInfoDone(t, online)
    \/ \E t \in TaskIds : LoadRead(t)
    \/ \E t \in TaskIds : LoadReadDevice(t)
    \/ \E t \in TaskIds : LoadSaved(t)

EnvironmentTo(cap401, capFail, who) ==
    \/ AnswersTo(cap401, capFail, who)
    \/ \E t \in TaskIds : DelayDone(t)

\* requests of a connected service: the interceptor and retryRequest
NextRetry ==
    \/ Environment(Retry401)
    \/ Connect(1, RetryConnects, RetryConnects)
    \/ Disconnect(1)
    \/ SendMessage(1, RetryOps)

SpecRetry == Init /\ [][NextRetry]_vars

\* a first launch of an instance whose requests are tried three times
InitBackoff ==
    LET W0 == [svc |-> [s \in Svc |-> NoService],
               tasks |-> [t \in TaskIds |-> EmptyTask],
               prov |-> NoProvider,
               storage |-> [session |-> 0, device |-> 0],
               timers |-> {}, timerSeq |-> 1, unauths |-> 0, failures |-> 0,
               queuedLog |-> [s \in Svc |-> <<>>],
               invoked |-> [s \in Svc |-> <<>>],
               lastNotify |-> <<>>, pollCalls |-> <<>>]
        W == NewService(W0, 1, LocalURL, BackoffAttempts, TestRetryDelay)
    IN  /\ svc = W.svc /\ tasks = W.tasks /\ prov = W.prov
        /\ storage = W.storage /\ timers = W.timers /\ timerSeq = W.timerSeq
        /\ unauths = W.unauths /\ failures = W.failures
        /\ queuedLog = W.queuedLog /\ invoked = W.invoked
        /\ lastNotify = W.lastNotify /\ pollCalls = W.pollCalls

\* the delays of retryRequest
NextBackoff ==
    \/ Environment(Backoff401)
    \/ Connect(1, BackoffConnects, BackoffConnects)
    \/ Disconnect(1)
    \/ SendMessage(1, BackoffOps)

SpecBackoff == InitBackoff /\ [][NextBackoff]_vars

\* the invocations of requests sent while connected and of queued requests,
\* of an instance whose requests are tried three times
NextAttempts ==
    \/ Environment(Attempt401)
    \/ Connect(1, AttemptConnects, AttemptConnects)
    \/ Disconnect(1)
    \/ SendMessage(1, AttemptOps)

SpecAttempts == InitBackoff /\ [][NextAttempts]_vars

\* disconnect() during connect() and reconnect() (no wrapper is called
\* here, so retryRequest never waits)
NextRace ==
    \/ Answers(Race401)
    \/ Connect(1, RaceConnects, RacePending)
    \/ Reconnect(1, RaceConnects, RacePending)
    \/ DisconnectInFlight(1)

SpecRace == Init /\ [][NextRace]_vars

\* disconnect() while requests wait in the offline queue
NextOffline ==
    \/ Environment(Offline401)
    \/ Connect(1, OfflineConnects, OfflinePending)
    \/ Disconnect(1)
    \/ DisconnectQueued(1)
    \/ SendMessage(1, OfflineOps)

SpecOffline == Init /\ [][NextOffline]_vars

\* the offline queue under connect, disconnect and reconnect
NextQueue ==
    \/ Environment(Queue401)
    \/ Connect(1, QueueConnects, QueuePending)
    \/ Reconnect(1, QueueConnects, QueuePending)
    \/ Disconnect(1)
    \/ SendMessage(1, QueueOps)

SpecQueue == Init /\ [][NextQueue]_vars

\* a later launch: an earlier run left its session id and its device id in
\* AsyncStorage, instance 1 just constructed
InitStale ==
    LET W0 == [svc |-> [s \in Svc |-> NoService],
               tasks |-> [t \in TaskIds |-> EmptyTask],
               prov |-> NoProvider,
               storage |-> [session |-> StaleSid, device |-> StoredDev],
               timers |-> {}, timerSeq |-> 1, unauths |-> 0, failures |-> 0,
               queuedLog |-> [s \in Svc |-> <<>>],
               invoked |-> [s \in Svc |-> <<>>],
               lastNotify |-> <<>>, pollCalls |-> <<>>]
        W == NewService(W0, 1, LocalURL, RetryAttempts, TestRetryDelay)
    IN  /\ svc = W.svc /\ tasks = W.tasks /\ prov = W.prov
        /\ storage = W.storage /\ timers = W.timers /\ timerSeq = W.timerSeq
        /\ unauths = W.unauths /\ failures = W.failures
        /\ queuedLog = W.queuedLog /\ invoked = W.invoked
        /\ lastNotify = W.lastNotify /\ pollCalls = W.pollCalls

\* connect() of a service that starts on a first launch or with a stored
\* session id (no wrapper is called here, so retryRequest never waits)
NextStale ==
    \/ Answers(Stale401)
    \/ Connect(1, StaleConnects, StaleConnects)

SpecStale == (Init \/ InitStale) /\ [][NextStale]_vars

\* the domain operation wrappers of a service
NextWrap ==
    \/ Environment(Wrap401)
    \/ Connect(1, WrapConnects, WrapConnects)
    \/ \E op \in Wrappers : CallWrapper(1, op, WrapOps)

SpecWrap == Init /\ [][NextWrap]_vars

\* before the first construction: AsyncStorage is empty, or an earlier run
\* left its session id and its device id there
InitFresh ==
    /\ svc = [s \in Svc |-> NoService]
    /\ tasks = [t \in TaskIds |-> EmptyTask]
    /\ prov = NoProvider
    /\ storage \in {[session |-> 0, device |-> 0],
                    [session |-> StaleSid, device |-> StoredDev]}
    /\ timers = {} /\ timerSeq = 1 /\ unauths = 0 /\ failures = 0
    /\ queuedLog = [s \in Svc |-> <<>>]
    /\ invoked = [s \in Svc |-> <<>>]
    /\ lastNotify = <<>> /\ pollCalls = <<>>

\* construction of the instances and their connect() (no wrapper is called
\* here, so retryRequest never waits)
NextFresh ==
    \/ Answers(Fresh401)
    \/ \E s \in Svc : Construct(s)
    \/ \E s \in Svc : Connect(s, FreshConnects, FreshConnects)

SpecFresh == InitFresh /\ [][NextFresh]_vars

\* healthCheck() of a service (no wrapper is called here, so retryRequest
\* never waits)
NextHealth ==
    \/ Answers(Health401)
    \/ Connect(1, HealthConnects, HealthConnects)
    \/ Disconnect(1)
    \/ HealthCheck(1, HealthCalls)
    \/ \E baseURL \in ClientURLs : UpdateBaseURLCall(1, baseURL)

SpecHealth == Init /\ [][NextHealth]_vars

\* disconnect(), getSession() and the connection listeners
\* (no wrapper is called here, so retryRequest never waits)
NextSession ==
    \/ Answers(Session401)
    \/ Connect(1, SessionConnects, SessionConnects)
    \/ Disconnect(1)
    \/ GetSession(1, SessionCalls)
    \/ DisconnectGetSession(1, SessionCalls)
    \/ GetSessionDisconnect(1, SessionCalls)
    \/ \E l \in ClientListeners : OnConnectionChange(1, l)
    \/ \E l \in ClientListeners : Unsubscribe(1, l)

SpecSession == Init /\ [][NextSession]_vars

\* the connection listeners of a service, some of which unsubscribe
\* themselves when they are called (no wrapper is called here, so
\* retryRequest never waits)
NextListeners ==
    \/ Answers(Listen401)
    \/ Connect(1, ListenConnects, ListenConnects)
    \/ Disconnect(1)
    \/ \E l \in ClientListeners \cup OnceListeners : OnConnectionChange(1, l)
    \/ \E l \in ClientListeners \cup OnceListeners : Unsubscribe(1, l)

SpecListeners == Init /\ [][NextListeners]_vars

\* the polling loop of a service
NextPoll ==
    \/ Environment(Poll401)
    \/ Connect(1, PollConnects, PollConnects)
    \/ Disconnect(1)
    \/ StartPollingCall(1)
    \/ StopPollingCall(1)
    \/ \E h \in 1..MaxTimers : PollTick(h, 1, PollTicks, PollPending)

SpecPoll == Init /\ [][NextPoll]_vars

\* the polling loop of a service and the callbacks of its clients
NextCallbacks ==
    \/ EnvironmentLimited(Cb401, CbFailures)
    \/ Connect(1, CbConnects, CbConnects)
    \/ StartPollingCall(1)
    \/ \E h \in 1..MaxTimers : PollTick(h, 1, CbTicks, CbPending)
    \/ \E e \in PollEvents, c \in PollCallbacks : OnPollingUpdate(1, e, c)
    \/ \E e \in PollEvents, c \in PollCallbacks : PollingUnsubscribe(1, e, c)

SpecCallbacks == Init /\ [][NextCallbacks]_vars

\* ------------------------------------------------ the mounted provider
\* after the first render and its effects: no saved connection_config, the
\* [config] effect has constructed instance 1, subscribed its listener and
\* called setApiService
Mounted ==
    LET W0 == [svc |-> [s \in Svc |-> NoService],
               tasks |-> [t \in TaskIds |-> EmptyTask],
               prov |-> [NoProvider EXCEPT !.mounted = TRUE, !.version = 1,
                                           !.apiService = 1, !.effectSvc = 1],
               storage |-> [session |-> 0, device |-> 0],
               timers |-> {}, timerSeq |-> 1, unauths |-> 0, failures |-> 0,
               queuedLog |-> [s \in Svc |-> <<>>],
               invoked |-> [s \in Svc |-> <<>>],
               lastNotify |-> <<>>, pollCalls |-> <<>>]
        W1 == NewService(W0, 1, ConfigURL(1, 0), ProvRetryAttempts, ProvRetryDelay)
        W == [W1 EXCEPT !.svc[1].connectionListeners = <<ProvListener(1)>>]
    IN  /\ svc = W.svc /\ tasks = W.tasks /\ prov = W.prov
        /\ storage = W.storage /\ timers = W.timers /\ timerSeq = W.timerSeq
        /\ unauths = W.unauths /\ failures = W.failures
        /\ queuedLog = W.queuedLog /\ invoked = W.invoked
        /\ lastNotify = W.lastNotify /\ pollCalls = W.pollCalls

\* the second version of the provider after its first render and its effects:
\* no saved connection_config and no saved app settings.  The settings effect
\* found localhost:3001 of the default app settings different from the
\* hard-coded defaultConfig and called setConfig; the [config] effect has
\* constructed instance 1 for the defaultConfig, subscribed its listener and
\* called setApiService.  The next render runs the [config] effect again.
Mounted2 ==
    LET W0 == [svc |-> [s \in Svc |-> NoService],
               tasks |-> [t \in TaskIds |-> EmptyTask],
               prov |-> [NoProvider EXCEPT !.mounted = TRUE, !.version = 2,
                                           !.apiService = 1, !.effectSvc = 1,
                                           !.config = 1],
               storage |-> [session |-> 0, device |-> 0],
               timers |-> {}, timerSeq |-> 1, unauths |-> 0, failures |-> 0,
               queuedLog |-> [s \in Svc |-> <<>>],
               invoked |-> [s \in Svc |-> <<>>],
               lastNotify |-> <<>>, pollCalls |-> <<>>]
        W1 == NewService(W0, 1, ConfigURL(2, 0), ProvRetryAttempts, ProvRetryDelay)
        W == [W1 EXCEPT !.svc[1].connectionListeners = <<ProvListener(1)>>]
    IN  /\ svc = W.svc /\ tasks = W.tasks /\ prov = W.prov
        /\ storage = W.storage /\ timers = W.timers /\ timerSeq = W.timerSeq
        /\ unauths = W.unauths /\ failures = W.failures
        /\ queuedLog = W.queuedLog /\ invoked = W.invoked
        /\ lastNotify = W.lastNotify /\ pollCalls = W.pollCalls

\* connect() and connect(host, port) of the provider, and the ticks of the
\* timer its connect() arms.  The server refuses only requests of connect()
\* (ConnFailures), so no request of a tick or of the listener is retried and
\* the retry timer never runs here.
InitConn == Mounted

NextConn ==
    \/ AnswersTo(Conn401, ConnFailures, {"connect"})
    \/ Render
    \/ \E withHostPort \in BOOLEAN : PConnect(withHostPort, ConnConnects)
    \/ ProvPollTick(ConnTicks)

SpecConn == InitConn /\ [][NextConn]_vars

InitProv == Mounted

\* a domain operation called while not connected, on the two layers: a client
\* of an ApiService calls sendMessage() on it, or a client of the mounted
\* provider, whose context value does not hand out the instance, calls the
\* wrappers of the provider
NextProv ==
    \/ AnswersLimited(Prov401, ProvFailures)
    \/ ~prov.mounted /\ Connect(1, ProvConnects, ProvConnects)
    \/ ~prov.mounted /\ Disconnect(1)
    \/ ~prov.mounted /\ SendMessage(1, ProvOps)
    \/ Render
    \/ PConnect(FALSE, ProvConnects)
    \/ PDisconnect
    \/ \E op \in Wrappers : PCallWrapper(op, ProvOps)
    \/ ProvPollTick(ProvTicks)

SpecProv == (Init \/ Mounted) /\ [][NextProv]_vars

\* every wrapper of the provider under connect() and disconnect(): the nine
\* wrappers of the first version, and of the second version the methods whose
\* code differs from the first (getProjects) or that it adds; the server
\* refuses only requests of these calls (PWrapFailures)
NextProvWrap ==
    \/ EnvironmentTo(PWrap401, PWrapFailures, {"call"})
    \/ Render
    \/ PConnect(FALSE, PWrapConnects)
    \/ PDisconnect
    \/ \E op \in Wrappers :
          /\ prov.version = 1 \/ op = "getProjects"
          /\ PCallWrapper(op, PWrapOps)
    \/ PRescanRepositories(PWrapOps)
    \/ PForceProjectSync(PWrapOps)
    \/ \E enabled \in BOOLEAN : PSetProjectSyncEnabled(enabled)
    \/ ProvPollTick(PWrapTicks)

SpecProvWrap == (Mounted \/ Mounted2) /\ [][NextProvWrap]_vars

\* connect(), disconnect() and reconnect() of the provider
NextReconn ==
    \/ AnswersLimited(Reconn401, ReconnFailures)
    \/ Render
    \/ PConnect(FALSE, ReconnConnects)
    \/ PDisconnect
    \/ PReconnect(ReconnConnects)
    \/ AppStateActive(ReconnConnects)
    \/ ProvPollTick(ReconnTicks)

SpecReconn == InitProv /\ [][NextReconn]_vars

\* the provider's connect() and disconnect() while the polling loop runs
NextLate ==
    \/ Environment(Late401)
    \/ Render
    \/ PConnect(FALSE, LateConnects)
    \/ PDisconnect
    \/ \E h \in 1..MaxTimers : PollTick(h, 1, LateTicks, LateTicks)

SpecLate == InitProv /\ [][NextLate]_vars

\* connect(host, port) and updateConfig() of the provider
NextConfig ==
    \/ AnswersLimited(Config401, ConfigFailures)
    \/ Render
    \/ \E withHostPort \in BOOLEAN : PConnect(withHostPort, ConfigConnects)
    \/ PUpdateConfig
    \/ ProvPollTick(ConfigTicks)

SpecConfig == InitConn /\ [][NextConfig]_vars

\* the network effect and connect() of the provider
NextAuto ==
    \/ EnvironmentLimited(Auto401, AutoFailures)
    \/ Render
    \/ PConnect(FALSE, AutoConnects)
    \/ \E online \in BOOLEAN : NetInfoEvent(online)
    \/ AutoConnectTimer(AutoConnects)
    \/ ProvPollTick(AutoTicks)

SpecAuto == InitConn /\ [][NextAuto]_vars

\* ------------------------------------------------------------- the claims
IsPrefix(a, b) == Len(a) <= Len(b) /\ a = SubSeq(b, 1, Len(a))

Ops == {t \in TaskIds : tasks[t].kind = "op"}
QueuedOps == {t \in Ops : tasks[t].queued}
DirectOps == {t \in Ops : ~tasks[t].queued}
InQueue(t) == \E i \in DOMAIN svc[tasks[t].s].retryQueue : svc[tasks[t].s].retryQueue[i] = t

\* C1: one client call sends its request at most twice: after a 401 and the
\* renewal of the session it is sent once more, and a second 401 ends the call.
C1_RetryOnce ==
    \A t \in TaskIds : tasks[t].stack # <<>> => tasks[t].stack[1] <= 2

\* C2: the requests queued while the service was not connected are invoked in
\* the order in which they were queued.
C2_QueueFIFO ==
    \A s \in Svc : IsPrefix(invoked[s], queuedLog[s])

C2_Witness ==
    /\ Len(invoked[1]) >= 2
    /\ \A t \in QueuedOps : tasks[t].pc = "done"

\* C8: a queued request is invoked at most once, it is either still in the
\* queue or has been invoked, and a connected service has an empty queue.
C8_ExactlyOnce ==
    /\ \A t \in QueuedOps :
          /\ tasks[t].calls <= 1
          /\ InQueue(t) <=> tasks[t].calls = 0
          /\ Cardinality({i \in DOMAIN invoked[tasks[t].s] : invoked[tasks[t].s][i] = t})
                = tasks[t].calls
    /\ \A s \in Svc : svc[s].isConnected => svc[s].retryQueue = <<>>

C8_Witness ==
    /\ Cardinality({t \in QueuedOps : tasks[t].calls = 1}) >= 2
    /\ ~svc[1].isConnected
    /\ \E t \in ConnSlots : tasks[t].result = "false"

\* C9: when a request run from the queue fails, the connection state stays as
\* it is, no other call settles with it and no other request loses its
\* invocation: the rejection reaches the caller of the failing request only.
C9_DrainBestEffort ==
    [][\A t \in QueuedOps :
          tasks[t].result = "pending" /\ tasks'[t].result = "rejected"
          => /\ svc' = svc
             /\ \A u \in TaskIds \ {t} : tasks'[u] = tasks[u]
             /\ invoked' = invoked]_vars

C9_Witness ==
    \E t, u \in QueuedOps :
        /\ tasks[t].result = "rejected"
        /\ tasks[u].result = "resolved"
        /\ svc[1].isConnected

C3_PendingWhileDisconnected ==
    \A t \in Ops : tasks[t].calls = 0 => tasks[t].pc # "done"

\* the call of a wrapper that started in this step as task t
Called(t) == tasks[t].kind = "none" /\ tasks'[t].kind = "op"

\* C3 as amended.  ApiService: an operation called while the instance is not
\* connected sends nothing, is appended to the retry queue and stays pending;
\* a successful connect() leaves nothing queued and sends the request once,
\* and the promise then settles with the server's answer to that request.
\* ConnectionProvider: a wrapper called while the isConnected of the last
\* render is false (or that render held no instance) does not reach the
\* ApiService: it returns at once, null (false for clearChatHistory), sends
\* and queues nothing, and sendMessage and sendVoiceMessage set lastError to
\* 'Not connected to server'; no other operation settles without a request.
\* Past that guard the call is the ApiService's: sent when the instance is
\* connected, queued and pending when it is not.
C3_QueuedUntilConnect ==
    /\ [](/\ \A t \in Ops :
               /\ tasks[t].calls = 0 /\ tasks[t].pc = "done"
                  => /\ tasks[t].via = "prov" /\ tasks[t].s = 0
                     /\ tasks[t].presult = ProvNothing(tasks[t].op)
                     /\ ~tasks[t].queued
               /\ tasks[t].queued /\ InQueue(t)
                  => /\ tasks[t].result = "pending" /\ tasks[t].stack = <<>>
                     /\ tasks[t].calls = 0
                     /\ tasks[t].via = "prov" => tasks[t].presult = "pending"
               /\ tasks[t].queued /\ ~InQueue(t) => tasks[t].calls = 1
               /\ tasks[t].queued /\ tasks[t].result = "resolved"
                  /\ tasks[t].op = "sendMessage"
                  => tasks[t].data = Echo(t)
           /\ \A s \in Svc : svc[s].isConnected => svc[s].retryQueue = <<>>)
    /\ [][\A t \in OpSlots :
             /\ Called(t) /\ tasks'[t].via = "svc"
                => IF svc[1].isConnected
                   THEN ~tasks'[t].queued /\ tasks'[t].stack # <<>>
                   ELSE /\ tasks'[t].queued /\ tasks'[t].stack = <<>>
                        /\ svc'[1].retryQueue = Append(svc[1].retryQueue, t)
             /\ Called(t) /\ tasks'[t].via = "prov"
                => IF prov.view.apiService = 0 \/ ~prov.view.isConnected
                   THEN /\ tasks'[t].pc = "done" /\ tasks'[t].s = 0
                        /\ tasks'[t].presult = ProvNothing(tasks'[t].op)
                        /\ tasks'[t].stack = <<>> /\ ~tasks'[t].queued
                        /\ svc' = svc
                        /\ prov'.lastError =
                              IF tasks'[t].op \in Reporting
                              THEN "Not connected to server" ELSE prov.lastError
                   ELSE /\ tasks'[t].s = prov.view.apiService
                        /\ tasks'[t].presult = "pending"
                        /\ tasks'[t].queued = ~svc[prov.view.apiService].isConnected
                        /\ tasks'[t].queued
                           => svc'[tasks'[t].s].retryQueue =
                                 Append(svc[tasks'[t].s].retryQueue, t)]_vars

\* a sendMessage() called on a disconnected ApiService was queued, sent by a
\* later connect() and resolved with the echo of the server
C3_Witness ==
    \E t \in Ops :
        /\ tasks[t].queued /\ tasks[t].via = "svc"
        /\ tasks[t].op = "sendMessage" /\ tasks[t].calls = 1
        /\ tasks[t].result = "resolved" /\ tasks[t].data = Echo(t)
        /\ svc[1].isConnected /\ invoked[1] = <<t>>

\* sendMessage() of the provider was called while the provider was not
\* connected and returned null at once
C3_ProviderReturnedNull ==
    \E t \in Ops :
        /\ tasks[t].via = "prov" /\ tasks[t].op = "sendMessage"
        /\ tasks[t].s = 0 /\ tasks[t].pc = "done" /\ tasks[t].presult = "null"
        /\ prov.lastError = "Not connected to server"

\* a wrapper of the provider passed the guard of a render that was connected
\* after disconnect(): its request waits in the queue of the instance
C3_ProviderQueued ==
    \E t \in Ops :
        /\ tasks[t].via = "prov" /\ tasks[t].queued /\ InQueue(t)
        /\ tasks[t].presult = "pending"
        /\ ~prov.isConnected /\ ~svc[tasks[t].s].isConnected

\* C4: while a connect() is pending a second connect() starts no session
\* creation of its own: no two pending connect() calls have a
\* POST /mobile/session in flight.
C4_SingleSessionCreation ==
    Cardinality({t \in ConnSlots : /\ tasks[t].kind = "connect"
                                   /\ tasks[t].pc = "create"
                                   /\ tasks[t].stack # <<>>}) <= 1

\* C5: when connect(host, port) returns true the provider is connected, its
\* attempt counter is 0 and the instance it holds is polling.
C5_ConnectEndsConnected ==
    [][\A t \in ConnSlots :
          /\ tasks[t].op = "hostport"
          /\ tasks[t].presult = "pending"
          /\ tasks'[t].presult = "true"
          => /\ prov'.isConnected
             /\ prov'.connectionAttempts = 0
             /\ svc'[prov'.apiService].polling # 0]_vars

\* C6: a getSession() called after disconnect() returns null.
C6_GetSessionNullAfterDisconnect ==
    \A t \in AuxSlots :
        tasks[t].op = "afterDisconnect" => tasks[t].result \in {"pending", "null"}

\* C6, its second half: disconnect() calls every registered listener once,
\* in registration order, with false.
C6_ListenersNotifiedOnce ==
    [][(Disconnect(1) \/ \E c \in 1..SessionCalls : DisconnectGetSession(1, c))
       => lastNotify' = [i \in 1..Len(svc[1].connectionListeners)
                           |-> <<svc[1].connectionListeners[i], FALSE>>]]_vars

\* C7: a failing answer to a fetch of a poll tick leaves the timer armed and the
\* connection state as it is, and a tick goes on to fetch the current project
\* whatever its fetch of the session gave.
C7_PollingIsolation ==
    [][/\ (\E t \in AuxSlots, r \in {"fail", "neterr"} :
              tasks[t].via = "tick" /\ Respond(t, r, Poll401))
          => /\ timers' = timers
             /\ \A s \in Svc : /\ svc'[s].polling = svc[s].polling
                               /\ svc'[s].isConnected = svc[s].isConnected
       /\ \A t \in AuxSlots :
             tasks[t].pc = "tsession" /\ tasks'[t].pc # "tsession"
             => /\ tasks'[t].op = "getCurrentProject"
                /\ tasks'[t].pc = IF svc[tasks[t].s].isConnected THEN "http" ELSE "queued"]_vars

C7_Witness ==
    \E t, u \in AuxSlots :
        /\ t < u
        /\ tasks[t].via = "tick" /\ tasks[t].result = "rejected"
        /\ tasks[u].via = "tick" /\ tasks[u].pc = "http"
        /\ svc[1].isConnected
        /\ <<svc[1].polling, 1>> \in timers

\* C11: a failed validation of the session id never fails connect(): it goes
\* on to create a session, and when the server accepts that creation connect()
\* returns true with the service connected and holding a new session id.
C11_SelfHealing ==
    [][\A t \in ConnSlots :
          /\ tasks[t].pc = "validate" /\ tasks'[t].pc # "validate"
             => \/ tasks'[t].result = "true"
                \/ /\ tasks'[t].pc = "create"
                   /\ tasks'[t].op = "revalidated"
                   /\ tasks'[t].stack = <<1>>
          /\ tasks[t].pc = "create" /\ tasks[t].storing /\ tasks'[t].pc # "create"
             => /\ tasks'[t].result = "true"
                /\ svc'[tasks[t].s].isConnected
                /\ svc'[tasks[t].s].sessionId \notin {0, StaleSid}]_vars

\* the validation of the stored id has failed, the session creation that
\* followed has been accepted and connect() is about to return
C11_Witness ==
    \E t \in ConnSlots :
        /\ tasks[t].pc = "create" /\ tasks[t].op = "revalidated"
        /\ tasks[t].storing
        /\ svc[1].sessionId \notin {0, StaleSid}
        /\ storage.session = svc[1].sessionId

ProvCalls == {t \in Ops : tasks[t].via \in {"prov", "sync"}}

\* the instance was not connected when the call t was made: the guard of the
\* provider returned, or makeRequest queued the first request of the call
CalledNotConnected(t) ==
    \/ tasks[t].s = 0
    \/ tasks[t].queued /\ (tasks[t].via = "prov" \/ tasks[t].op = "getProjects")

\* C13: a domain operation of the provider never rejects; called while not
\* connected it returns null (false for clearChatHistory) and sends no
\* request; when the call of the service fails it returns null or false.
C13_NullWhenNotConnected ==
    \A t \in ProvCalls :
        /\ tasks[t].presult # "rejected"
        /\ CalledNotConnected(t)
           => tasks[t].presult = ProvNothing(tasks[t].op) /\ tasks[t].calls = 0
        /\ tasks[t].result = "rejected"
           => tasks[t].presult = ProvNothing(tasks[t].op)

\* the part of C13 that holds: a domain operation of the provider never
\* rejects; when the guard of the render it was called in finds the provider
\* not connected it returns null (false for clearChatHistory), sends and
\* queues nothing; when the call of the service fails it returns null or
\* false; it is pending exactly while the call of the service is
C13_ProviderNeverRejects ==
    \A t \in ProvCalls :
        /\ tasks[t].presult \in {"pending", "null", "false", "true", "data"}
        /\ tasks[t].s = 0
           => /\ tasks[t].presult = ProvNothing(tasks[t].op)
              /\ tasks[t].calls = 0 /\ ~tasks[t].queued
        /\ tasks[t].result = "rejected"
           => tasks[t].presult = ProvNothing(tasks[t].op)
        /\ tasks[t].result = "pending" <=> tasks[t].presult = "pending"
        /\ tasks[t].via = "sync" => tasks[t].presult \in {"pending", "null"}

\* clearChatHistory() of the provider returned false after the service had
\* tried the request three times
C13_Witness ==
    \E t \in Ops :
        /\ tasks[t].via = "prov" /\ tasks[t].op = "clearChatHistory"
        /\ tasks[t].result = "rejected" /\ tasks[t].presult = "false"
        /\ tasks[t].calls = ProvRetryAttempts

\* rescanRepositories() of the second version returned null from its guard
C13_WitnessNotConnected ==
    \E t \in Ops :
        /\ tasks[t].via = "prov" /\ tasks[t].s = 0
        /\ tasks[t].op = "rescanRepositories" /\ tasks[t].presult = "null"

\* a wrapper was called after disconnect() through the closure of a render
\* that was connected: its request is queued and its promise is pending
\* while neither the provider nor the instance is connected
C13_PendingAfterDisconnect ==
    \E t \in ProvCalls :
        /\ tasks[t].queued /\ InQueue(t) /\ tasks[t].presult = "pending"
        /\ ~prov.isConnected /\ ~svc[tasks[t].s].isConnected
        /\ prov.view.isConnected

HealthChecks == {t \in AuxSlots : tasks[t].kind = "health"}

\* C14 as written: no step of a healthCheck() changes the connection state or
\* the session state.
C14_HealthCheckChangesNothing ==
    [][\A t \in HealthChecks :
          tasks'[t] # tasks[t] => svc' = svc /\ storage' = storage]_vars

\* C14 as amended: healthCheck() sends its request at once in every connection
\* state and is never queued; it resolves to true or false and never rejects;
\* a failed request or an answer whose status is not 'OK' resolves it to false;
\* it never changes isConnected, the listeners or the queue.  It changes the
\* session id only through the 401 handling of the client: a 401 answer makes
\* the interceptor create a session before the probe is sent again.
C14_HealthCheckSafe ==
    [][\A t \in AuxSlots :
          /\ tasks[t].kind = "none" /\ tasks'[t].kind = "health"
             => /\ tasks'[t].stack = <<1>> /\ tasks'[t].pc = "health"
                /\ svc' = svc
          /\ tasks[t].kind = "health" /\ tasks'[t] # tasks[t]
             => /\ tasks'[t].result \in {"pending", "true", "false"}
                /\ tasks'[t].pc \in {"health", "done"}
                /\ svc'[tasks[t].s].isConnected = svc[tasks[t].s].isConnected
                /\ svc'[tasks[t].s].connectionListeners = svc[tasks[t].s].connectionListeners
                /\ svc'[tasks[t].s].retryQueue = svc[tasks[t].s].retryQueue
                /\ lastNotify' = lastNotify
                /\ svc'[tasks[t].s].sessionId # svc[tasks[t].s].sessionId
                   => Len(tasks[t].stack) > 1
          /\ /\ tasks[t].kind = "health" /\ Len(tasks[t].stack) = 1
             /\ \E r \in {"fail", "neterr"} : Respond(t, r, Health401)
             => tasks'[t].result = "false"]_vars

\* a healthCheck() of a service that never connected got a 401, a session was
\* created for it, and the probe then failed: it resolved to false
C14_Witness ==
    \E t \in HealthChecks :
        /\ tasks[t].result = "false"
        /\ Used(ConnSlots) = 0 /\ ~svc[1].isConnected
        /\ unauths = 1 /\ svc[1].sessionId # 0

\* no connect() of instance s has been called
NoConnectYet(s) == \A t \in ConnSlots : tasks[t].kind = "none" \/ tasks[t].s # s

\* C15, as the claim states it: a constructed ApiService on which connect() was
\* not called reports getConnectionStatus() = false, a null session id, the
\* base URL of its configuration and a defined device id.
C15_NullSessionBeforeConnect ==
    \A s \in Svc : svc[s].exists /\ NoConnectYet(s) =>
        /\ GetConnectionStatus(World, s) = FALSE
        /\ GetDebugInfo(World, s).sessionId = 0
        /\ GetDebugInfo(World, s).baseURL = LocalURL
        /\ GetDebugInfo(World, s).deviceId # 0

\* C15: a constructed ApiService on which connect() was not called reports
\* getConnectionStatus() = false, the base URL of its configuration and a
\* defined device id (the generated one until loadStoredSession has read
\* AsyncStorage, then that one or the one found there, which an earlier run
\* or another instance stored); its session id is null when it is
\* constructed and stays null until loadStoredSession, which the constructor
\* starts, has read AsyncStorage: with nothing stored it stays null, with a
\* stored session id the instance holds a session id from then on, before any
\* connect().
C15_FreshService ==
    /\ \A s \in Svc : svc[s].exists /\ NoConnectYet(s) =>
          /\ GetConnectionStatus(World, s) = FALSE
          /\ GetDebugInfo(World, s).isConnected = FALSE
          /\ GetDebugInfo(World, s).baseURL = LocalURL
          /\ GetDebugInfo(World, s).deviceId # 0
          /\ GetDebugInfo(World, s).deviceId
                \in {StoredDev} \cup {GenDev(u) : u \in {v \in Svc : svc[v].exists}}
          /\ tasks[s].pc \in {"read", "readDevice"}
             => GetDebugInfo(World, s).deviceId = GenDev(s)
          /\ tasks[s].pc \in {"read", "readDevice", "saveDevice"}
             \/ storage.session = 0
             => GetDebugInfo(World, s).sessionId = 0
          /\ tasks[s].pc \in {"lvalidate", "lcreate"}
             => GetDebugInfo(World, s).sessionId # 0
    /\ \A t \in ConnSlots : tasks[t].kind # "none" => svc[tasks[t].s].exists

\* the second instance is just constructed while the first is connected and
\* its session id is in AsyncStorage
C15_JustConstructed ==
    /\ svc[2].exists /\ tasks[2].pc = "read" /\ NoConnectYet(2)
    /\ svc[2].sessionId = 0 /\ ~svc[2].isConnected
    /\ svc[1].isConnected /\ storage.session # 0

\* an instance constructed over the storage of an earlier run has taken the
\* stored session id and device id and validates the session, and connect()
\* was called on no instance
C15_Witness ==
    /\ svc[1].exists /\ Used(ConnSlots) = 0
    /\ tasks[1].pc = "lvalidate"
    /\ svc[1].sessionId = StaleSid /\ svc[1].deviceId = StoredDev
    /\ ~svc[1].isConnected /\ svc[1].baseURL = LocalURL

\* the connect() of task t returns in this step
ConnectReturns(t) ==
    /\ tasks[t].kind = "connect" /\ tasks[t].result = "pending"
    /\ tasks'[t].result # "pending"

\* C16: a connect() that fails (no network, or session creation or validation
\* failing) returns false and never throws and leaves the state disconnected:
\* its instance is not connected and the provider is neither connected nor
\* connecting; the provider's connect() returns false and records an error
\* message as lastError.
C16_FailedConnect ==
    [][\A t \in ConnSlots :
          ConnectReturns(t)
          => /\ tasks'[t].result \in {"true", "false"}
             /\ tasks'[t].result = "false"
                => /\ ~svc'[tasks[t].s].isConnected
                   /\ tasks[t].via = "prov"
                      => /\ tasks'[t].presult = "false"
                         /\ prov'.lastError # "none"
                         /\ ~prov'.isConnecting
                         /\ ~prov'.isConnected]_vars

\* the part of C16 that holds: a connect() that fails returns false, never
\* throws and leaves its instance not connected; the provider's connect()
\* then returns false, records an error message as lastError and is no longer
\* connecting
C16_FailedConnectReturnsFalse ==
    [][\A t \in ConnSlots :
          ConnectReturns(t)
          => /\ tasks'[t].result \in {"true", "false"}
             /\ tasks'[t].result = "false"
                => /\ ~svc'[tasks[t].s].isConnected
                   /\ tasks[t].via = "prov"
                      => /\ tasks'[t].presult = "false"
                         /\ prov'.lastError = "Connection failed"
                         /\ ~prov'.isConnecting]_vars

\* no connect() fails on the session creation that follows a failed
\* validation of the session id it held (violated: the step is reached)
C16_NoFailedValidation ==
    [][\A t \in ConnSlots :
          ConnectReturns(t) /\ tasks[t].op = "revalidated"
          => tasks'[t].result = "true"]_vars

\* the provider's connect() returned false after a session creation that the
\* server refused
C16_Witness ==
    \E t \in ConnSlots :
        /\ tasks[t].kind = "connect" /\ tasks[t].via = "prov"
        /\ tasks[t].result = "false" /\ tasks[t].presult = "false"
        /\ failures > 0 /\ prov.apiService = tasks[t].s
        /\ prov.lastError = "Connection failed"
        /\ ~prov.isConnecting /\ ~prov.isConnected
        /\ ~svc[tasks[t].s].isConnected

\* the provider's connect() returned false and the provider is connected:
\* the listener of the instance it replaced had set isConnected
C16_ConnectedAfterFailure ==
    \E t \in ConnSlots :
        /\ tasks[t].kind = "connect" /\ tasks[t].via = "prov"
        /\ tasks[t].presult = "false"
        /\ prov.isConnected /\ ~svc[prov.apiService].isConnected

\* C17 as written: when the provider's reconnect() returns true, the instance
\* is connected with a session id and its polling loop is running, as after a
\* successful connect().
C17_ReconnectStartsPolling ==
    [][\A t \in ConnSlots :
          tasks[t].kind = "reconnect" /\ tasks[t].via = "prov"
          /\ tasks[t].presult = "pending" /\ tasks'[t].presult = "true"
          => /\ svc'[tasks[t].s].isConnected
             /\ svc'[tasks[t].s].sessionId # 0
             /\ svc'[tasks[t].s].polling # 0]_vars

\* the part of C17 that holds: when reconnect() returns true the instance and
\* the provider are connected; the session id is the one created last unless
\* disconnect() was called meanwhile
C17_ReconnectConnected ==
    [][\A t \in ConnSlots :
          tasks[t].kind = "reconnect" /\ tasks[t].via = "prov"
          /\ tasks[t].presult = "pending" /\ tasks'[t].presult = "true"
          => /\ svc'[tasks[t].s].isConnected /\ prov'.isConnected
             /\ svc'[tasks[t].s].sessionId \in {0, storage'.session}]_vars

\* reconnect() returned true and no polling loop is running
C17_ConnectedWithoutPolling ==
    \E t \in ConnSlots :
        /\ tasks[t].kind = "reconnect" /\ tasks[t].presult = "true"
        /\ svc[tasks[t].s].isConnected /\ prov.isConnected
        /\ svc[tasks[t].s].polling = 0 /\ timers = {}

\* the only connect() succeeded and disconnect() was called after it
AfterDisconnect ==
    /\ \E t \in ConnSlots : tasks[t].kind = "connect" /\ tasks[t].result = "true"
    /\ Used(ConnSlots) = LateConnects
    /\ ~svc[1].isConnected

\* after disconnect() no polling callback is invoked
C18_NoLateCallback == [][AfterDisconnect => pollCalls' = pollCalls]_vars

\* C18: after disconnect() the answers to requests sent before it are ignored:
\* no polling callback is invoked and no session or project state is applied,
\* so the state disconnect() cleared stays cleared.
C18_LateResultsIgnored ==
    AfterDisconnect =>
        /\ prov.sessionInfo = 0
        /\ prov.currentProject = 0
        /\ ~prov.repositories

\* the calls a notification of the listeners ls with status connected makes
CallsInOrder(ls, connected) == [i \in 1..Len(ls) |-> <<ls[i], connected>>]

\* the listeners of the client run no code of the service: onConnectionChange
\* appends the listener; every transition of the connection state, and every
\* disconnect(), calls each registered listener once with the new status, in
\* registration order, within the same step; the unsubscribe function removes
\* one registration of its listener and leaves the others in their order
C19_ListenersInOrder ==
    [][/\ svc'[1].isConnected # svc[1].isConnected \/ Disconnect(1)
          => /\ svc'[1].connectionListeners = svc[1].connectionListeners
             /\ lastNotify' = CallsInOrder(svc[1].connectionListeners,
                                           svc'[1].isConnected)
       /\ \A l \in ClientListeners :
             LET ls == svc[1].connectionListeners
                 others(q) == SelectSeq(q, LAMBDA x : x # l)
             IN  /\ OnConnectionChange(1, l)
                    => svc'[1].connectionListeners = ls \o <<l>>
                 /\ Unsubscribe(1, l)
                    => /\ others(svc'[1].connectionListeners) = others(ls)
                       /\ Len(svc'[1].connectionListeners) =
                             IF \E i \in 1..Len(ls) : ls[i] = l
                             THEN Len(ls) - 1 ELSE Len(ls)
                       /\ Len(ls) - Len(others(ls)) <= 1
                          => svc'[1].connectionListeners = others(ls)]_vars

\* C19: any number of listeners can be registered (onConnectionChange appends
\* the listener); on every transition of the connection state, and on every
\* disconnect(), every listener registered at that moment is called once with
\* the new status, in registration order, within the same step; the
\* unsubscribe function removes one registration of its listener and leaves
\* the others in their order.
C19_EveryListenerCalled ==
    [][/\ svc'[1].isConnected # svc[1].isConnected \/ Disconnect(1)
          => lastNotify' = CallsInOrder(svc[1].connectionListeners,
                                        svc'[1].isConnected)
       /\ \A l \in ClientListeners \cup OnceListeners :
             LET ls == svc[1].connectionListeners
                 others(q) == SelectSeq(q, LAMBDA x : x # l)
             IN  /\ OnConnectionChange(1, l)
                    => svc'[1].connectionListeners = ls \o <<l>>
                 /\ Unsubscribe(1, l)
                    => /\ others(svc'[1].connectionListeners) = others(ls)
                       /\ Len(ls) - Len(others(ls)) <= 1
                          => svc'[1].connectionListeners = others(ls)]_vars

\* the elements of seq at the indices of keep, from index i on, in their order
RECURSIVE Keep(_, _, _)
Keep(seq, keep, i) ==
    IF i > Len(seq) THEN <<>>
    ELSE (IF i \in keep THEN <<seq[i]>> ELSE <<>>) \o Keep(seq, keep, i + 1)

\* the calls of a notification are calls of registered listeners in
\* registration order; the first registered listener is always called, and
\* none is left out unless a listener that unsubscribes itself is registered
C19_CalledInOrder ==
    [][svc'[1].isConnected # svc[1].isConnected \/ Disconnect(1)
       => LET ls == svc[1].connectionListeners
              all == CallsInOrder(ls, svc'[1].isConnected)
          IN  /\ \E keep \in SUBSET (1..Len(ls)) : lastNotify' = Keep(all, keep, 1)
              /\ (\A i \in 1..Len(ls) : ls[i] \notin OnceListeners)
                 => lastNotify' = all
              /\ ls # <<>> => lastNotify' # <<>> /\ lastNotify'[1] = all[1]]_vars

\* a listener that unsubscribes itself was registered before another one and
\* a connection was made: the first was called and is gone, the second was
\* not called and is still registered
C19_Skipped ==
    /\ svc[1].isConnected
    /\ svc[1].connectionListeners = <<201>>
    /\ lastNotify = <<<<203, TRUE>>>>

\* two listeners, the second registered first, were both told of a connection
C19_Witness ==
    /\ svc[1].isConnected
    /\ svc[1].connectionListeners = <<202, 201>>
    /\ lastNotify = <<<<202, TRUE>>, <<201, TRUE>>>>

\* the calls made when data for event arrives with the callbacks cbs
Delivered(calls, cbs, event) ==
    IF cbs[event] # 0 THEN Append(calls, <<event, cbs[event]>>) ELSE calls

\* C20: each key holds the callback of the latest onPollingUpdate call for it
\* (none once an unsubscribe closure of the key was called), whatever was
\* registered before; a registration touches no other key; a tick that gets a
\* session, or a project, calls the callback its key holds, once, and no other
\* step calls a polling callback.
C20_LastRegistrationWins ==
    [][LET cbs == svc[1].pollingCallbacks IN
       /\ svc'[1].pollingCallbacks = svc'[1].registered
       /\ \A e \in PollEvents, c \in PollCallbacks :
             OnPollingUpdate(1, e, c)
             => svc'[1].pollingCallbacks = [cbs EXCEPT ![e] = c]
       /\ \A t \in AuxSlots :
             /\ tasks[t].pc = "tsession" /\ Len(tasks[t].stack) = 1
                /\ Respond(t, "ok", Cb401)
                => pollCalls' = Delivered(pollCalls, svc[1].registered,
                                          "session_update")
             /\ tasks[t].pc = "http" /\ tasks[t].via = "tick"
                /\ Len(tasks[t].stack) = 1 /\ Respond(t, "ok", Cb401)
                => pollCalls' = Delivered(pollCalls, svc[1].registered,
                                          "project_update")
       /\ pollCalls' # pollCalls
          => \E t \in AuxSlots : tasks[t].via = "tick" /\ Respond(t, "ok", Cb401)]_vars

\* two ticks got a session: the first called callback 301, the second, after
\* 302 was registered for the key, called 302 only
C20_Witness ==
    /\ Len(pollCalls) >= 2
    /\ \E i \in 1..Len(pollCalls) - 1 :
          /\ pollCalls[i] = <<"session_update", 301>>
          /\ pollCalls[i + 1] = <<"session_update", 302>>
    /\ svc[1].pollingCallbacks["session_update"] = 302

\* C21 as written: the delay before each further attempt of a request is
\* strictly larger than the delay before the previous one.
C21_ExponentialBackoff ==
    \A t \in Ops : \A i \in 2..Len(tasks[t].delays) :
        tasks[t].delays[i] > tasks[t].delays[i - 1]

\* what the code does: every delay is the configured retryDelay
C21_ConstantDelay ==
    \A t \in Ops : \A i \in 1..Len(tasks[t].delays) :
        tasks[t].delays[i] = EffectiveDelay(svc[tasks[t].s].retryDelay)

\* a request failed three times and waited twice
C21_TwoDelays ==
    \E t \in Ops : Len(tasks[t].delays) = 2 /\ tasks[t].result = "rejected"

\* C22: once a device id is in AsyncStorage, every POST /mobile/session that
\* is sent carries that device id.
C22_PersistedDeviceId ==
    [][\A t \in TaskIds :
          tasks[t].dev = 0 /\ tasks'[t].dev # 0 /\ storage.device # 0
          => tasks'[t].dev = storage.device]_vars

\* what holds: every POST carries, when it is first sent, the device id its
\* instance holds (one sent again after a 401 keeps its body); an instance
\* whose loadStoredSession has read a persisted device id holds that id and
\* leaves AsyncStorage as it is, and one that has read none persists its own
C22_AfterLoad ==
    [][\A t \in TaskIds :
          /\ tasks[t].dev = 0 /\ tasks'[t].dev # 0
             /\ Len(tasks'[t].saved) >= Len(tasks[t].saved)
             => tasks'[t].dev = svc'[tasks'[t].s].deviceId
          /\ tasks[t].kind = "load" /\ tasks[t].pc = "readDevice"
             /\ tasks'[t].pc # "readDevice"
             => IF tasks[t].storedDeviceId # 0
                THEN /\ svc'[tasks[t].s].deviceId = tasks[t].storedDeviceId
                     /\ storage'.device = storage.device
                ELSE /\ svc'[tasks[t].s].deviceId = svc[tasks[t].s].deviceId
                     /\ storage'.device = svc[tasks[t].s].deviceId]_vars

\* connect() sent its POST with the generated device id while another one is
\* persisted and loadStoredSession has not read it yet
C22_GeneratedIdSent ==
    \E t \in ConnSlots :
        /\ tasks[t].pc = "create" /\ tasks[t].dev = GenDev(1)
        /\ storage.device = StoredDev /\ tasks[1].pc \in {"read", "readDevice"}

GetSessions == {t \in AuxSlots : tasks[t].kind = "getSession"}

\* C23: getSession() never rejects; an answer with success and a session
\* resolves it to the session; a network error, an answer without success, a
\* body without session and a failed renewal of the session after a 401
\* resolve it to null.
C23_GetSessionNeverThrows ==
    [][\A t \in GetSessions :
          /\ tasks'[t].result \in {"pending", "session", "null"}
          /\ Len(tasks[t].stack) = 1 /\ Respond(t, "ok", Session401)
             => tasks'[t].result = "session" /\ tasks'[t].data # 0
          /\ Len(tasks[t].stack) = 1
             /\ (\E r \in {"fail", "neterr", "malformed"} :
                    Respond(t, r, Session401))
             => tasks'[t].result = "null"
          /\ Len(tasks[t].stack) > 1
             /\ (\E r \in {"fail", "neterr"} : Respond(t, r, Session401))
             => tasks'[t].result = "null"]_vars

\* a getSession() of a service that never connected got a 401, the renewal of
\* the session failed, and it resolved to null
C23_Witness ==
    \E t \in GetSessions :
        /\ tasks[t].result = "null" /\ tasks[t].op # "afterDisconnect"
        /\ Used(ConnSlots) = 0 /\ unauths = 1 /\ svc[1].sessionId = 0

\* a connect() or reconnect() of instance s succeeds in this step
ConnectSucceeds(s) ==
    \E t \in ConnSlots :
        /\ tasks[t].s = s
        /\ tasks[t].result = "pending" /\ tasks'[t].result = "true"

\* C24: a successful connect invokes exactly the requests that are in the
\* queue at that instant, in their order, and leaves the queue empty; no other
\* step invokes a queued request or takes one off the queue, so a request
\* queued later stays queued until the next successful connect.
C24_DrainSnapshot ==
    [][\A s \in Svc :
          IF ConnectSucceeds(s)
          THEN /\ invoked'[s] = invoked[s] \o svc[s].retryQueue
               /\ svc'[s].retryQueue = <<>>
          ELSE /\ invoked'[s] = invoked[s]
               /\ IsPrefix(svc[s].retryQueue, svc'[s].retryQueue)]_vars

\* after a drain and a disconnect() a second request was queued: the first
\* was invoked by the drain, the second is still in the queue
C24_Witness ==
    \E t, u \in QueuedOps :
        /\ tasks[t].calls = 1 /\ invoked[1] = <<t>>
        /\ tasks[u].calls = 0 /\ svc[1].retryQueue = <<u>>
        /\ ~svc[1].isConnected

\* C25: when disconnect() was called while a connect() or a reconnect() was
\* awaiting, the instance is not connected and has no session id when that
\* call settles.
C25_DisconnectWins ==
    [][\A t \in ConnSlots :
          tasks[t].cut /\ tasks[t].result = "pending" /\ tasks'[t].result # "pending"
          => /\ ~svc'[tasks[t].s].isConnected
             /\ svc'[tasks[t].s].sessionId = 0]_vars

\* a connect() that disconnect() interrupted is about to return true
C25_ConnectedAfterDisconnect ==
    \E t \in ConnSlots :
        /\ tasks[t].kind = "connect" /\ tasks[t].cut
        /\ tasks[t].pc = "create" /\ tasks[t].storing
        /\ svc[1].sessionId # 0 /\ storage.session # 0

\* C26: a connected instance has a session id.
C26_ConnectedHasSession ==
    \A s \in Svc : svc[s].isConnected => svc[s].sessionId # 0

\* what holds: an instance on which disconnect() was never called during a
\* connect() or reconnect() has a session id whenever it is connected
C26_ConnectedHasSessionUncut ==
    [][(\A t \in ConnSlots : ~tasks[t].cut) /\ ~DisconnectInFlight(1)
       /\ C26_ConnectedHasSession
       => \A s \in Svc : svc'[s].isConnected => svc'[s].sessionId # 0]_vars

\* C27: at most one polling timer is armed, and it belongs to the instance
\* the provider holds: an instance that the provider replaced has none.
C27_OneTimer ==
    /\ Cardinality(timers) <= 1
    /\ \A tm \in timers : tm[2] = prov.apiService

\* what holds: startPolling cancels the previous timer of its instance, so an
\* instance has at most one armed timer, the one its polling field holds
C27_OneTimerPerInstance ==
    \A s \in Svc :
        {tm \in timers : tm[2] = s} =
            IF svc[s].polling = 0 THEN {} ELSE {<<svc[s].polling, s>>}

\* the replaced instance and the new one both have an armed timer
C27_TwoTimers ==
    /\ Cardinality(timers) = 2
    /\ prov.apiService = 2 /\ svc[1].polling # 0 /\ svc[2].polling # 0

\* C28 as written: the closure a registration returned removes the callback of
\* that registration only; called while the key holds another callback, it
\* leaves that callback registered.
C28_UnsubscribeOwnOnly ==
    [][\A e \in PollEvents, c \in PollCallbacks :
          PollingUnsubscribe(1, e, c) /\ svc[1].pollingCallbacks[e] # c
          => svc'[1].pollingCallbacks[e] = svc[1].pollingCallbacks[e]]_vars

\* what the closure does: it empties its key, whichever callback the key
\* holds, and touches no other key
C28_UnsubscribeEmptiesKey ==
    [][\A e \in PollEvents, c \in PollCallbacks :
          PollingUnsubscribe(1, e, c)
          => svc'[1].pollingCallbacks =
                 [svc[1].pollingCallbacks EXCEPT ![e] = 0]]_vars

\* the closure of callback 301 was called after 302 was registered for the
\* key, and the key holds nothing
C28_NewerRemoved ==
    /\ svc[1].unsubs["session_update"] = {302}
    /\ svc[1].pollingCallbacks["session_update"] = 0

\* C29: disconnect() leaves the offline queue as it is: the same requests in
\* the same order, none invoked, none settled; a request in the queue is
\* pending and was never invoked, and the successful connect that follows
\* invokes every request of the queue.
C29_DisconnectKeepsQueue ==
    [][/\ Disconnect(1) \/ DisconnectQueued(1)
          => /\ svc'[1].retryQueue = svc[1].retryQueue
             /\ \A t \in Ops : tasks'[t].result = tasks[t].result
                                /\ tasks'[t].calls = tasks[t].calls
                                /\ tasks'[t].pc = tasks[t].pc
             /\ invoked' = invoked /\ queuedLog' = queuedLog
       /\ \A t \in QueuedOps :
             InQueue(t) => tasks[t].result = "pending" /\ tasks[t].calls = 0
       /\ ConnectSucceeds(1)
          => \A t \in QueuedOps : InQueue(t) => tasks'[t].calls = 1]_vars

\* disconnect() was called while two requests were in the queue, and the
\* connect that succeeded afterwards invoked both, in the order of the queue
C29_Witness ==
    \E t, u \in QueuedOps :
        /\ tasks[t].cut /\ tasks[u].cut
        /\ queuedLog[1] = <<t, u>> /\ invoked[1] = <<t, u>>
        /\ tasks[t].calls = 1 /\ tasks[u].calls = 1
        /\ svc[1].isConnected

\* C30: with retryAttempts = N >= 1, a request sent while connected is
\* rejected exactly when its N-th invocation has failed, after N - 1 delays; it
\* resolves at its first invocation that succeeds, the k-th, k <= N, after
\* k - 1 failed ones; a request run from the offline queue settles after one
\* invocation and no delay; a settled request is never invoked again.
C30_ExactAttempts ==
    [][\A t \in Ops :
          LET N == svc[tasks[t].s].retryAttempts
              failed == Len(tasks'[t].delays)
              settles == tasks[t].result = "pending" /\ tasks'[t].result # "pending"
          IN  /\ N >= 1
              /\ settles /\ tasks[t].queued
                 => tasks'[t].calls = 1 /\ failed = 0
              /\ settles /\ ~tasks[t].queued /\ tasks'[t].result = "rejected"
                 => tasks'[t].calls = N /\ failed = N - 1
              /\ settles /\ ~tasks[t].queued /\ tasks'[t].result = "resolved"
                 => tasks'[t].calls = failed + 1 /\ tasks'[t].calls <= N
              /\ tasks[t].result # "pending" => tasks'[t].calls = tasks[t].calls
              /\ tasks'[t].calls \in {tasks[t].calls, tasks[t].calls + 1}]_vars

\* of three requests, one sent while connected failed three times and was
\* rejected, one resolved at its second invocation, and one run from the
\* queue was rejected after its only invocation
C30_Witness ==
    \E t, u \in DirectOps, w \in QueuedOps :
        /\ tasks[t].result = "rejected" /\ tasks[t].calls = BackoffAttempts
        /\ tasks[u].result = "resolved" /\ tasks[u].calls = 2
        /\ tasks[w].result = "rejected" /\ tasks[w].calls = 1

====
